---- MODULE Spec2Model ----
(***************************************************************************)
(* Per-epoch state transition of the beacon chain (serenity fork):         *)
(* eth2/beacon/helpers.py and                                              *)
(* eth2/beacon/state_machines/forks/serenity/epoch_processing.py.          *)
(*                                                                         *)
(* A BeaconState is a record; state.copy(f = v) is [state EXCEPT !.f = v]. *)
(* Python tuples indexed from 0 are functions over 0 .. n-1.               *)
(***************************************************************************)
EXTENDS Integers, Sequences, FiniteSets, TLC

VARIABLES state, pre, inp, last, error, returned

vars == <<state, pre, inp, last, error, returned>>

(***************************************************************************)
(* BeaconConfig                                                            *)
(***************************************************************************)
EPOCH_LENGTH == 2

GENESIS_EPOCH == 0

MAX_DEPOSIT_AMOUNT == 2

SHARD_COUNT == 3

TARGET_COMMITTEE_SIZE == 2

\* lengths of the ring buffers latest_randao_mixes, latest_active_index_roots and
\* latest_slashed_balances
LATEST_RANDAO_MIXES_LENGTH == 3

LATEST_ACTIVE_INDEX_ROOTS_LENGTH == 3

LATEST_SLASHED_EXIT_LENGTH == 2

LATEST_BLOCK_ROOTS_LENGTH == 3

(***************************************************************************)
(* Bounds of the model                                                     *)
(***************************************************************************)
\* number of validators in the registry
NumValidators == 4

\* largest raw balance of a validator
MaxBalance == 3

\* epoch transitions explored after genesis
MaxEpochs == 4

\* largest boundary attesting balance the aggregation reports
MaxAttesting == 4

\* attestations held in latest_attestations
MaxAttestations == 2

\* epoch transitions explored after genesis by the crosslink state machine
MaxCrosslinkEpochs == 2

\* epoch transitions explored after genesis by the registry rotation controller
MaxRotationEpochs == 4

\* largest MIN_SEED_LOOKAHEAD and ACTIVATION_EXIT_DELAY a BeaconConfig sets
MaxSeedLookahead == 1

MaxActivationExitDelay == 1

ValidatorIndex == 0 .. (NumValidators - 1)

(***************************************************************************)
(* Integer helpers (Python's int operators)                                *)
(***************************************************************************)
Min(a, b) == IF a <= b THEN a ELSE b

\* a | b on non-negative integers
RECURSIVE BitOr(_, _)
BitOr(a, b) ==
    IF a = 0 THEN b
    ELSE IF b = 0 THEN a
    ELSE 2 * BitOr(a \div 2, b \div 2) + (IF (a % 2 = 1) \/ (b % 2 = 1) THEN 1 ELSE 0)

\* a << n
RECURSIVE ShiftLeft(_, _)
ShiftLeft(a, n) == IF n = 0 THEN a ELSE ShiftLeft(2 * a, n - 1)

\* a >> n
RECURSIVE ShiftRight(_, _)
ShiftRight(a, n) == IF n = 0 THEN a ELSE ShiftRight(a \div 2, n - 1)

RECURSIVE SumSeq(_)
SumSeq(s) == IF s = <<>> THEN 0 ELSE Head(s) + SumSeq(Tail(s))

(***************************************************************************)
(* helpers.py: time unit conversion                                        *)
(***************************************************************************)
\* variant: a started epoch counts
slot_to_epoch_rounded_up(slot, epoch_length) ==
    (slot + epoch_length - 1) \div epoch_length

slot_to_epoch(slot, epoch_length) == slot \div epoch_length

get_epoch_start_slot(epoch, epoch_length) == epoch * epoch_length

\* BeaconState.current_epoch / previous_epoch / next_epoch
current_epoch_of(s, epoch_length) == slot_to_epoch(s.slot, epoch_length)

previous_epoch_of(s, epoch_length, genesis_epoch) ==
    LET current_epoch == current_epoch_of(s, epoch_length)
    IN  IF current_epoch > genesis_epoch THEN current_epoch - 1 ELSE current_epoch

next_epoch_of(s, epoch_length) == current_epoch_of(s, epoch_length) + 1

(***************************************************************************)
(* helpers.py: validator set queries                                       *)
(***************************************************************************)
\* ValidatorRecord.is_active
is_active(validator, epoch) ==
    validator.activation_epoch <= epoch /\ epoch < validator.exit_epoch

\* the indices, in registry order, of the validators active in epoch
get_active_validator_indices(validators, epoch) ==
    SelectSeq([k \in 1 .. NumValidators |-> k - 1],
              LAMBDA index : is_active(validators[index], epoch))

\* variant: the balance counts in full
get_effective_balance_uncapped(validator_balances, index, max_deposit_amount) ==
    validator_balances[index]

get_effective_balance(validator_balances, index, max_deposit_amount) ==
    Min(validator_balances[index], max_deposit_amount)

get_total_balance(validator_balances, validator_indices, max_deposit_amount) ==
    SumSeq([k \in 1 .. Len(validator_indices) |->
              get_effective_balance(validator_balances, validator_indices[k],
                                    max_deposit_amount)])

(***************************************************************************)
(* helpers.py: randomness and seeds                                        *)
(***************************************************************************)
\* a raised ValidationError: the call returns no value
ValidationError == [raised |-> TRUE]

Returned(value) == [raised |-> FALSE, value |-> value]

\* hash_eth2 is taken to be injective: a digest is named by its preimage
hash_eth2(data) == [hash_eth2 |-> data]

\* the all-zero digest of the genesis state: the digest of no seed preimage the
\* model builds, whose mixes are 1 or more
ZERO_HASH32 ==
    hash_eth2([randao_mix |-> 0, active_index_root |-> hash_eth2(<<>>),
               epoch |-> [little_endian |-> GENESIS_EPOCH]])

\* validate_epoch_for_active_randao_mix: the mix must be within the retained
\* window and not from the future
validate_epoch_for_active_randao_mix(state_epoch, given_epoch, latest_randao_mixes_length) ==
    /\ state_epoch - latest_randao_mixes_length < given_epoch
    /\ given_epoch <= state_epoch

\* validate_epoch_for_active_index_root
validate_epoch_for_active_index_root(state_epoch, given_epoch, activation_exit_delay, latest_active_index_roots_length) ==
    /\ state_epoch - latest_active_index_roots_length + activation_exit_delay < given_epoch
    /\ given_epoch <= state_epoch + activation_exit_delay

\* the root of a tuple of active validator indices: the digest of the joined
\* 32-byte big-endian encodings of the indices, one to one on index tuples
index_root_of(active_validator_indices) ==
    hash_eth2([k \in 1 .. Len(active_validator_indices) |->
                  [big_endian |-> active_validator_indices[k]]])

\* variant: the epoch is not validated and wraps into the buffer
get_randao_mix_unchecked(s, epoch, epoch_length, latest_randao_mixes_length) ==
    Returned(s.latest_randao_mixes[epoch % latest_randao_mixes_length])

get_randao_mix(s, epoch, epoch_length, latest_randao_mixes_length) ==
    IF ~validate_epoch_for_active_randao_mix(current_epoch_of(s, epoch_length), epoch,
                                             latest_randao_mixes_length)
        THEN ValidationError
    ELSE Returned(s.latest_randao_mixes[epoch % latest_randao_mixes_length])

\* variant: the window is not moved by the activation exit delay
get_active_index_root_undelayed(s, epoch, epoch_length, activation_exit_delay, latest_active_index_roots_length) ==
    IF ~validate_epoch_for_active_index_root(current_epoch_of(s, epoch_length), epoch, 0,
                                             latest_active_index_roots_length)
        THEN ValidationError
    ELSE Returned(s.latest_active_index_roots[epoch % latest_active_index_roots_length])

get_active_index_root(s, epoch, epoch_length, activation_exit_delay, latest_active_index_roots_length) ==
    IF ~validate_epoch_for_active_index_root(current_epoch_of(s, epoch_length), epoch,
                                             activation_exit_delay,
                                             latest_active_index_roots_length)
        THEN ValidationError
    ELSE Returned(s.latest_active_index_roots[epoch % latest_active_index_roots_length])

\* epoch.to_bytes(32, byteorder="little"): one to one on the epochs it accepts
epoch_as_bytes(epoch) == [little_endian |-> epoch]

\* variant: the mix of the epoch itself is taken
generate_seed_without_lookahead(s, epoch, epoch_length, min_seed_lookahead, activation_exit_delay, latest_active_index_roots_length, latest_randao_mixes_length) ==
    LET randao_mix == get_randao_mix(s, epoch, epoch_length,
                                     latest_randao_mixes_length)
        active_index_root == get_active_index_root(s, epoch, epoch_length,
                                                   activation_exit_delay,
                                                   latest_active_index_roots_length)
    IN  IF randao_mix.raised THEN ValidationError
        ELSE IF active_index_root.raised THEN ValidationError
        ELSE Returned(hash_eth2([randao_mix |-> randao_mix.value,
                                 active_index_root |-> active_index_root.value,
                                 epoch |-> epoch_as_bytes(epoch)]))

generate_seed(s, epoch, epoch_length, min_seed_lookahead, activation_exit_delay, latest_active_index_roots_length, latest_randao_mixes_length) ==
    LET randao_mix == get_randao_mix(s, epoch - min_seed_lookahead, epoch_length,
                                     latest_randao_mixes_length)
        active_index_root == get_active_index_root(s, epoch, epoch_length,
                                                   activation_exit_delay,
                                                   latest_active_index_roots_length)
    IN  IF randao_mix.raised THEN ValidationError
        ELSE IF active_index_root.raised THEN ValidationError
        ELSE Returned(hash_eth2([randao_mix |-> randao_mix.value,
                                 active_index_root |-> active_index_root.value,
                                 epoch |-> epoch_as_bytes(epoch)]))

(***************************************************************************)
(* helpers.py: block roots                                                 *)
(***************************************************************************)
\* variant: the slot of the state itself is accepted
_get_block_root_inclusive(latest_block_roots, state_slot, slot, latest_block_roots_length) ==
    IF state_slot > slot + latest_block_roots_length THEN ValidationError
    ELSE IF slot > state_slot THEN ValidationError
    ELSE Returned(latest_block_roots[slot % latest_block_roots_length])

_get_block_root(latest_block_roots, state_slot, slot, latest_block_roots_length) ==
    IF state_slot > slot + latest_block_roots_length THEN ValidationError
    ELSE IF slot >= state_slot THEN ValidationError
    ELSE Returned(latest_block_roots[slot % latest_block_roots_length])

get_block_root(s, slot, latest_block_roots_length) ==
    _get_block_root(s.latest_block_roots, s.slot, slot, latest_block_roots_length)

(***************************************************************************)
(* helpers.py: fork versions and signature domains                         *)
(*                                                                         *)
(* A Python int has no width.  A non-negative int that may pass 2^31 is    *)
(* held as its base-65536 digits, least significant first, without leading *)
(* zero digits: 0 is <<>>, 4294967296 is <<0, 0, 1>>.                      *)
(***************************************************************************)
DigitBase == 65536

\* the digits of a non-negative integer below 2^31
RECURSIVE int_digits(_)
int_digits(n) ==
    IF n = 0 THEN <<>> ELSE <<n % DigitBase>> \o int_digits(n \div DigitBase)

\* a + b + carry
RECURSIVE int_add(_, _, _)
int_add(a, b, carry) ==
    IF a = <<>> /\ b = <<>> THEN (IF carry = 0 THEN <<>> ELSE <<carry>>)
    ELSE LET digit_a == IF a = <<>> THEN 0 ELSE Head(a)
             digit_b == IF b = <<>> THEN 0 ELSE Head(b)
             rest_a == IF a = <<>> THEN <<>> ELSE Tail(a)
             rest_b == IF b = <<>> THEN <<>> ELSE Tail(b)
             sum == digit_a + digit_b + carry
         IN  <<sum % DigitBase>> \o int_add(rest_a, rest_b, sum \div DigitBase)

\* a * 4294967296: 4294967296 is DigitBase * DigitBase
times_4294967296(a) == IF a = <<>> THEN <<>> ELSE <<0, 0>> \o a

\* variant: the epoch of the fork still has the previous version
get_fork_version_late(fork, epoch) ==
    IF epoch <= fork.epoch THEN fork.previous_version ELSE fork.current_version

get_fork_version(fork, epoch) ==
    IF epoch < fork.epoch THEN fork.previous_version ELSE fork.current_version

get_domain(fork, epoch, domain_type) ==
    int_add(times_4294967296(get_fork_version(fork, epoch)), domain_type, 0)

(***************************************************************************)
(* helpers.py: slashable votes                                             *)
(***************************************************************************)
\* variant: only two votes of one slot are a double vote
is_double_vote_same_slot(attestation_data_1, attestation_data_2, epoch_length) ==
    attestation_data_1.slot = attestation_data_2.slot

is_double_vote(attestation_data_1, attestation_data_2, epoch_length) ==
    slot_to_epoch(attestation_data_1.slot, epoch_length) =
        slot_to_epoch(attestation_data_2.slot, epoch_length)

\* variant: votes with a common source or target count as surrounding
is_surround_vote_weak(attestation_data_1, attestation_data_2, epoch_length) ==
    LET source_epoch_1 == attestation_data_1.justified_epoch
        source_epoch_2 == attestation_data_2.justified_epoch
        target_epoch_1 == slot_to_epoch(attestation_data_1.slot, epoch_length)
        target_epoch_2 == slot_to_epoch(attestation_data_2.slot, epoch_length)
    IN  source_epoch_1 <= source_epoch_2 /\ target_epoch_2 <= target_epoch_1

\* variant: the targets compared by slot
is_surround_vote_by_slot(attestation_data_1, attestation_data_2, epoch_length) ==
    LET source_epoch_1 == attestation_data_1.justified_epoch
        source_epoch_2 == attestation_data_2.justified_epoch
    IN  source_epoch_1 < source_epoch_2 /\ attestation_data_2.slot < attestation_data_1.slot

is_surround_vote(attestation_data_1, attestation_data_2, epoch_length) ==
    LET source_epoch_1 == attestation_data_1.justified_epoch
        source_epoch_2 == attestation_data_2.justified_epoch
        target_epoch_1 == slot_to_epoch(attestation_data_1.slot, epoch_length)
        target_epoch_2 == slot_to_epoch(attestation_data_2.slot, epoch_length)
    IN  source_epoch_1 < source_epoch_2 /\ target_epoch_2 < target_epoch_1

(***************************************************************************)
(* epoch_processing.py: justification                                      *)
(***************************************************************************)
\* variant: the thresholds compared strictly
_current_previous_epochs_justifiable_strict(s, current_epoch, previous_epoch, boundary) ==
    LET current_total_balance ==
            get_total_balance(s.validator_balances,
                              get_active_validator_indices(s.validator_registry,
                                                           current_epoch),
                              MAX_DEPOSIT_AMOUNT)
        previous_total_balance ==
            get_total_balance(s.validator_balances,
                              get_active_validator_indices(s.validator_registry,
                                                           previous_epoch),
                              MAX_DEPOSIT_AMOUNT)
    IN  [current |-> 3 * boundary.current > 2 * current_total_balance,
         previous |-> 3 * boundary.previous > 2 * previous_total_balance]

\* boundary is the pair get_epoch_boundary_attesting_balances returns,
\* supplied by the attestation aggregation
_current_previous_epochs_justifiable(s, current_epoch, previous_epoch, boundary) ==
    LET current_epoch_active_validator_indices ==
            get_active_validator_indices(s.validator_registry, current_epoch)
        previous_epoch_active_validator_indices ==
            get_active_validator_indices(s.validator_registry, previous_epoch)
        current_total_balance ==
            get_total_balance(s.validator_balances,
                              current_epoch_active_validator_indices,
                              MAX_DEPOSIT_AMOUNT)
        previous_total_balance ==
            get_total_balance(s.validator_balances,
                              previous_epoch_active_validator_indices,
                              MAX_DEPOSIT_AMOUNT)
        previous_epoch_justifiable ==
            3 * boundary.previous >= 2 * previous_total_balance
        current_epoch_justifiable ==
            3 * boundary.current >= 2 * current_total_balance
    IN  [current |-> current_epoch_justifiable,
         previous |-> previous_epoch_justifiable]

\* variant: without a matching rule the old finalized epoch is forgotten
_get_finalized_epoch_forgetful(justification_bitfield, previous_justified_epoch, justified_epoch, finalized_epoch, previous_epoch) ==
    LET rule_1 == /\ ShiftRight(justification_bitfield, 1) % 8 = 7
                  /\ previous_justified_epoch = previous_epoch - 2
        rule_2 == /\ ShiftRight(justification_bitfield, 1) % 4 = 3
                  /\ previous_justified_epoch = previous_epoch - 1
        rule_3 == /\ justification_bitfield % 8 = 7
                  /\ justified_epoch = previous_epoch - 1
        rule_4 == /\ justification_bitfield % 4 = 3
                  /\ justified_epoch = previous_epoch
    IN  IF rule_4 THEN <<justified_epoch, 4>>
        ELSE IF rule_3 THEN <<justified_epoch, 3>>
        ELSE IF rule_2 THEN <<previous_justified_epoch, 2>>
        ELSE IF rule_1 THEN <<previous_justified_epoch, 1>>
        ELSE <<GENESIS_EPOCH, 0>>

\* variant: the rules tried in the order 1, 2, 3, 4
_get_finalized_epoch_ascending(justification_bitfield, previous_justified_epoch, justified_epoch, finalized_epoch, previous_epoch) ==
    LET rule_1 == /\ ShiftRight(justification_bitfield, 1) % 8 = 7
                  /\ previous_justified_epoch = previous_epoch - 2
        rule_2 == /\ ShiftRight(justification_bitfield, 1) % 4 = 3
                  /\ previous_justified_epoch = previous_epoch - 1
        rule_3 == /\ justification_bitfield % 8 = 7
                  /\ justified_epoch = previous_epoch - 1
        rule_4 == /\ justification_bitfield % 4 = 3
                  /\ justified_epoch = previous_epoch
    IN  IF rule_1 THEN <<previous_justified_epoch, 1>>
        ELSE IF rule_2 THEN <<previous_justified_epoch, 2>>
        ELSE IF rule_3 THEN <<justified_epoch, 3>>
        ELSE IF rule_4 THEN <<justified_epoch, 4>>
        ELSE <<finalized_epoch, 0>>

_get_finalized_epoch(justification_bitfield, previous_justified_epoch, justified_epoch, finalized_epoch, previous_epoch) ==
    LET rule_1 == /\ ShiftRight(justification_bitfield, 1) % 8 = 7
                  /\ previous_justified_epoch = previous_epoch - 2
        rule_2 == /\ ShiftRight(justification_bitfield, 1) % 4 = 3
                  /\ previous_justified_epoch = previous_epoch - 1
        rule_3 == /\ justification_bitfield % 8 = 7
                  /\ justified_epoch = previous_epoch - 1
        rule_4 == /\ justification_bitfield % 4 = 3
                  /\ justified_epoch = previous_epoch
    IN  IF rule_4 THEN <<justified_epoch, 4>>
        ELSE IF rule_3 THEN <<justified_epoch, 3>>
        ELSE IF rule_2 THEN <<previous_justified_epoch, 2>>
        ELSE IF rule_1 THEN <<previous_justified_epoch, 1>>
        ELSE <<finalized_epoch, 0>>

\* variant: the two flags set each other's bit
new_justification_bitfield_swapped(old_bitfield, current_epoch_justifiable, previous_epoch_justifiable) ==
    LET _justification_bitfield == ShiftLeft(old_bitfield, 1)
    IN  IF previous_epoch_justifiable /\ current_epoch_justifiable
            THEN BitOr(_justification_bitfield, 3)
        ELSE IF previous_epoch_justifiable
            THEN BitOr(_justification_bitfield, 1)
        ELSE IF current_epoch_justifiable
            THEN BitOr(_justification_bitfield, 2)
        ELSE _justification_bitfield

\* variant: the old bitfield is not shifted
new_justification_bitfield_unshifted(old_bitfield, current_epoch_justifiable, previous_epoch_justifiable) ==
    IF previous_epoch_justifiable /\ current_epoch_justifiable
        THEN BitOr(old_bitfield, 3)
    ELSE IF previous_epoch_justifiable
        THEN BitOr(old_bitfield, 2)
    ELSE IF current_epoch_justifiable
        THEN BitOr(old_bitfield, 1)
    ELSE old_bitfield

\* lines 149-157: the new justification bitfield
new_justification_bitfield(old_bitfield, current_epoch_justifiable, previous_epoch_justifiable) ==
    LET _justification_bitfield == ShiftLeft(old_bitfield, 1)
    IN  IF previous_epoch_justifiable /\ current_epoch_justifiable
            THEN BitOr(_justification_bitfield, 3)
        ELSE IF previous_epoch_justifiable
            THEN BitOr(_justification_bitfield, 2)
        ELSE IF current_epoch_justifiable
            THEN BitOr(_justification_bitfield, 1)
        ELSE _justification_bitfield

\* variant: the previous epoch is preferred to the current one
new_justified_epoch_of_previous_first(old_justified_epoch, current_epoch, previous_epoch, current_epoch_justifiable, previous_epoch_justifiable) ==
    IF previous_epoch_justifiable THEN previous_epoch
    ELSE IF current_epoch_justifiable THEN current_epoch
    ELSE old_justified_epoch

\* variant: without a justifiable epoch the justified epoch falls back to genesis
new_justified_epoch_of_reset(old_justified_epoch, current_epoch, previous_epoch, current_epoch_justifiable, previous_epoch_justifiable) ==
    IF current_epoch_justifiable THEN current_epoch
    ELSE IF previous_epoch_justifiable THEN previous_epoch
    ELSE GENESIS_EPOCH

\* lines 159-164: the new justified epoch
new_justified_epoch_of(old_justified_epoch, current_epoch, previous_epoch, current_epoch_justifiable, previous_epoch_justifiable) ==
    IF current_epoch_justifiable THEN current_epoch
    ELSE IF previous_epoch_justifiable THEN previous_epoch
    ELSE old_justified_epoch

\* variant: justified_epoch is overwritten before previous_justified_epoch
\* is taken from it
process_justification_write_first(s, boundary) ==
    LET current_epoch == current_epoch_of(s, EPOCH_LENGTH)
        previous_epoch == previous_epoch_of(s, EPOCH_LENGTH, GENESIS_EPOCH)
        justifiable ==
            _current_previous_epochs_justifiable(s, current_epoch, previous_epoch,
                                                 boundary)
        justification_bitfield ==
            new_justification_bitfield(s.justification_bitfield,
                                       justifiable.current, justifiable.previous)
        new_justified_epoch ==
            new_justified_epoch_of(s.justified_epoch, current_epoch, previous_epoch,
                                   justifiable.current, justifiable.previous)
        finalized ==
            _get_finalized_epoch(justification_bitfield,
                                 s.previous_justified_epoch,
                                 s.justified_epoch,
                                 s.finalized_epoch,
                                 previous_epoch)
    IN  [s EXCEPT !.previous_justified_epoch = new_justified_epoch,
                  !.justified_epoch = new_justified_epoch,
                  !.justification_bitfield = justification_bitfield,
                  !.finalized_epoch = finalized[1]]

process_justification(s, boundary) ==
    LET current_epoch == current_epoch_of(s, EPOCH_LENGTH)
        previous_epoch == previous_epoch_of(s, EPOCH_LENGTH, GENESIS_EPOCH)
        justifiable ==
            _current_previous_epochs_justifiable(s, current_epoch, previous_epoch,
                                                 boundary)
        justification_bitfield ==
            new_justification_bitfield(s.justification_bitfield,
                                       justifiable.current, justifiable.previous)
        new_justified_epoch ==
            new_justified_epoch_of(s.justified_epoch, current_epoch, previous_epoch,
                                   justifiable.current, justifiable.previous)
        finalized ==
            _get_finalized_epoch(justification_bitfield,
                                 s.previous_justified_epoch,
                                 s.justified_epoch,
                                 s.finalized_epoch,
                                 previous_epoch)
    IN  [s EXCEPT !.previous_justified_epoch = s.justified_epoch,
                  !.justified_epoch = new_justified_epoch,
                  !.justification_bitfield = justification_bitfield,
                  !.finalized_epoch = finalized[1]]

(***************************************************************************)
(* epoch_processing.py: crosslinks                                         *)
(***************************************************************************)
\* tuples a + b
Concat(a, b) == a \o b

\* the attestations of latest_attestations made in the previous epoch
get_previous_epoch_attestations(s, epoch_length, genesis_epoch) ==
    SelectSeq(s.latest_attestations,
              LAMBDA attestation :
                  previous_epoch_of(s, epoch_length, genesis_epoch) =
                      slot_to_epoch(attestation.data.slot, epoch_length))

\* the attestations of latest_attestations made in the current epoch
get_current_epoch_attestations(s, epoch_length) ==
    SelectSeq(s.latest_attestations,
              LAMBDA attestation :
                  current_epoch_of(s, epoch_length) =
                      slot_to_epoch(attestation.data.slot, epoch_length))

_filter_attestations_by_shard(attestations, shard) ==
    SelectSeq(attestations, LAMBDA attestation : attestation.data.shard = shard)

\* chunk number index (from 0) of the split of a tuple in count pieces
SplitChunk(values, count, index) ==
    SubSeq(values,
           ((Len(values) * index) \div count) + 1,
           (Len(values) * (index + 1)) \div count)

\* one committee per slot: the (committee, shard) pairs of a slot of the
\* previous or of the current epoch. The validators active in the epoch are
\* split, unshuffled, over the slots of the epoch; the shards run from the start
\* shard of that epoch.
get_crosslink_committees_at_slot(s, slot) ==
    LET epoch == slot_to_epoch(slot, EPOCH_LENGTH)
        offset == slot % EPOCH_LENGTH
        start_shard == IF epoch = current_epoch_of(s, EPOCH_LENGTH)
                       THEN s.current_epoch_start_shard
                       ELSE s.previous_epoch_start_shard
        active_validator_indices ==
            get_active_validator_indices(s.validator_registry, epoch)
    IN  << [committee |-> SplitChunk(active_validator_indices, EPOCH_LENGTH, offset),
            shard |-> (start_shard + offset) % SHARD_COUNT] >>

NoWinningRootError == [raised |-> TRUE]

\* the validators attesting to shard_block_root in attestations
AttestingIndices(attestations, shard_block_root) ==
    UNION { attestations[k].participants :
              k \in { j \in 1 .. Len(attestations) :
                        attestations[j].data.shard_block_root = shard_block_root } }

\* ascending tuple of the members of a set of validator indices
SortedIndices(indices) ==
    SelectSeq([k \in 1 .. NumValidators |-> k - 1], LAMBDA index : index \in indices)

\* the root with the greatest attesting balance, the smallest such root on a
\* tie; NoWinningRootError when no attestation is given
get_winning_root(s, shard, attestations, max_deposit_amount) ==
    LET shard_block_roots ==
            { attestations[k].data.shard_block_root : k \in 1 .. Len(attestations) }
        balance_of(root) ==
            get_total_balance(s.validator_balances,
                              SortedIndices(AttestingIndices(attestations, root)),
                              max_deposit_amount)
        best == { root \in shard_block_roots :
                    \A other \in shard_block_roots :
                        balance_of(other) <= balance_of(root) }
    IN  IF shard_block_roots = {} THEN NoWinningRootError
        ELSE LET winning_root ==
                     CHOOSE root \in best : \A other \in best : root <= other
             IN  [raised |-> FALSE,
                  winning_root |-> winning_root,
                  total_attesting_balance |-> balance_of(winning_root)]

\* the (committee, shard) pairs the two loops visit, in order
RECURSIVE crosslink_pairs(_, _, _)
crosslink_pairs(s, slot, next_epoch_start_slot) ==
    IF slot >= next_epoch_start_slot THEN <<>>
    ELSE Concat(get_crosslink_committees_at_slot(s, slot),
                crosslink_pairs(s, slot + 1, next_epoch_start_slot))

\* variant: no handler for NoWinningRootError around get_winning_root
crosslink_step_unhandled(s, latest_crosslinks, pair) ==
    LET result ==
            get_winning_root(
                s, pair.shard,
                _filter_attestations_by_shard(
                    Concat(get_previous_epoch_attestations(s, EPOCH_LENGTH,
                                                           GENESIS_EPOCH),
                           get_current_epoch_attestations(s, EPOCH_LENGTH)),
                    pair.shard),
                MAX_DEPOSIT_AMOUNT)
        total_balance ==
            SumSeq([k \in 1 .. Len(pair.committee) |->
                      get_effective_balance(s.validator_balances, pair.committee[k],
                                            MAX_DEPOSIT_AMOUNT)])
    IN  IF result.raised
            THEN [raised |-> TRUE, latest_crosslinks |-> latest_crosslinks]
        ELSE IF 3 * result.total_attesting_balance >= 2 * total_balance
            THEN [raised |-> FALSE,
                  latest_crosslinks |->
                      [latest_crosslinks EXCEPT ![pair.shard] =
                          [epoch |-> current_epoch_of(s, EPOCH_LENGTH),
                           shard_block_root |-> result.winning_root]]]
        ELSE [raised |-> FALSE, latest_crosslinks |-> latest_crosslinks]

\* variant: the threshold compared strictly
crosslink_step_strict(s, latest_crosslinks, pair) ==
    LET result ==
            get_winning_root(
                s, pair.shard,
                _filter_attestations_by_shard(
                    Concat(get_previous_epoch_attestations(s, EPOCH_LENGTH,
                                                           GENESIS_EPOCH),
                           get_current_epoch_attestations(s, EPOCH_LENGTH)),
                    pair.shard),
                MAX_DEPOSIT_AMOUNT)
        total_balance ==
            SumSeq([k \in 1 .. Len(pair.committee) |->
                      get_effective_balance(s.validator_balances, pair.committee[k],
                                            MAX_DEPOSIT_AMOUNT)])
    IN  IF result.raised
            THEN [raised |-> FALSE, latest_crosslinks |-> latest_crosslinks]
        ELSE IF 3 * result.total_attesting_balance > 2 * total_balance
            THEN [raised |-> FALSE,
                  latest_crosslinks |->
                      [latest_crosslinks EXCEPT ![pair.shard] =
                          [epoch |-> current_epoch_of(s, EPOCH_LENGTH),
                           shard_block_root |-> result.winning_root]]]
        ELSE [raised |-> FALSE, latest_crosslinks |-> latest_crosslinks]

\* variant: the record carries the previous epoch
crosslink_step_previous_epoch(s, latest_crosslinks, pair) ==
    LET result ==
            get_winning_root(
                s, pair.shard,
                _filter_attestations_by_shard(
                    Concat(get_previous_epoch_attestations(s, EPOCH_LENGTH,
                                                           GENESIS_EPOCH),
                           get_current_epoch_attestations(s, EPOCH_LENGTH)),
                    pair.shard),
                MAX_DEPOSIT_AMOUNT)
        total_balance ==
            SumSeq([k \in 1 .. Len(pair.committee) |->
                      get_effective_balance(s.validator_balances, pair.committee[k],
                                            MAX_DEPOSIT_AMOUNT)])
    IN  IF result.raised
            THEN [raised |-> FALSE, latest_crosslinks |-> latest_crosslinks]
        ELSE IF 3 * result.total_attesting_balance >= 2 * total_balance
            THEN [raised |-> FALSE,
                  latest_crosslinks |->
                      [latest_crosslinks EXCEPT ![pair.shard] =
                          [epoch |-> previous_epoch_of(s, EPOCH_LENGTH, GENESIS_EPOCH),
                           shard_block_root |-> result.winning_root]]]
        ELSE [raised |-> FALSE, latest_crosslinks |-> latest_crosslinks]

\* variant: the committee visited last decides: below the threshold the record
\* of the shard is put back to the one of the input state
crosslink_step_last_decides(s, latest_crosslinks, pair) ==
    LET result ==
            get_winning_root(
                s, pair.shard,
                _filter_attestations_by_shard(
                    Concat(get_previous_epoch_attestations(s, EPOCH_LENGTH,
                                                           GENESIS_EPOCH),
                           get_current_epoch_attestations(s, EPOCH_LENGTH)),
                    pair.shard),
                MAX_DEPOSIT_AMOUNT)
        total_balance ==
            SumSeq([k \in 1 .. Len(pair.committee) |->
                      get_effective_balance(s.validator_balances, pair.committee[k],
                                            MAX_DEPOSIT_AMOUNT)])
    IN  IF result.raised
            THEN [raised |-> FALSE, latest_crosslinks |-> latest_crosslinks]
        ELSE IF 3 * result.total_attesting_balance >= 2 * total_balance
            THEN [raised |-> FALSE,
                  latest_crosslinks |->
                      [latest_crosslinks EXCEPT ![pair.shard] =
                          [epoch |-> current_epoch_of(s, EPOCH_LENGTH),
                           shard_block_root |-> result.winning_root]]]
        ELSE [raised |-> FALSE,
              latest_crosslinks |->
                  [latest_crosslinks EXCEPT ![pair.shard] =
                      s.latest_crosslinks[pair.shard]]]

\* lines 226-259: the body of the inner loop for one (committee, shard) pair
crosslink_step(s, latest_crosslinks, pair) ==
    LET result ==
            get_winning_root(
                s, pair.shard,
                _filter_attestations_by_shard(
                    Concat(get_previous_epoch_attestations(s, EPOCH_LENGTH,
                                                           GENESIS_EPOCH),
                           get_current_epoch_attestations(s, EPOCH_LENGTH)),
                    pair.shard),
                MAX_DEPOSIT_AMOUNT)
        total_balance ==
            SumSeq([k \in 1 .. Len(pair.committee) |->
                      get_effective_balance(s.validator_balances, pair.committee[k],
                                            MAX_DEPOSIT_AMOUNT)])
    IN  IF result.raised
            \* except NoWinningRootError: pass
            THEN [raised |-> FALSE, latest_crosslinks |-> latest_crosslinks]
        ELSE IF 3 * result.total_attesting_balance >= 2 * total_balance
            THEN [raised |-> FALSE,
                  latest_crosslinks |->
                      [latest_crosslinks EXCEPT ![pair.shard] =
                          [epoch |-> current_epoch_of(s, EPOCH_LENGTH),
                           shard_block_root |-> result.winning_root]]]
        ELSE [raised |-> FALSE, latest_crosslinks |-> latest_crosslinks]

\* the loops over pairs; an exception leaving a step ends them
RECURSIVE crosslink_loop(_, _, _)
crosslink_loop(s, latest_crosslinks, pairs) ==
    IF pairs = <<>> THEN [raised |-> FALSE, latest_crosslinks |-> latest_crosslinks]
    ELSE LET step == crosslink_step(s, latest_crosslinks, Head(pairs))
         IN  IF step.raised THEN step
             ELSE crosslink_loop(s, step.latest_crosslinks, Tail(pairs))

\* variant: the attestations the aggregation has consumed are dropped
process_crosslinks_pruning(s) ==
    LET prev_epoch_start_slot ==
            get_epoch_start_slot(previous_epoch_of(s, EPOCH_LENGTH, GENESIS_EPOCH),
                                 EPOCH_LENGTH)
        next_epoch_start_slot ==
            get_epoch_start_slot(next_epoch_of(s, EPOCH_LENGTH), EPOCH_LENGTH)
        looped ==
            crosslink_loop(s, s.latest_crosslinks,
                           crosslink_pairs(s, prev_epoch_start_slot,
                                           next_epoch_start_slot))
    IN  IF looped.raised THEN [raised |-> TRUE, state |-> s]
        ELSE [raised |-> FALSE,
              state |-> [s EXCEPT !.latest_crosslinks = looped.latest_crosslinks,
                                  !.latest_attestations = <<>>]]

process_crosslinks(s) ==
    LET prev_epoch_start_slot ==
            get_epoch_start_slot(previous_epoch_of(s, EPOCH_LENGTH, GENESIS_EPOCH),
                                 EPOCH_LENGTH)
        next_epoch_start_slot ==
            get_epoch_start_slot(next_epoch_of(s, EPOCH_LENGTH), EPOCH_LENGTH)
        looped ==
            crosslink_loop(s, s.latest_crosslinks,
                           crosslink_pairs(s, prev_epoch_start_slot,
                                           next_epoch_start_slot))
    IN  IF looped.raised THEN [raised |-> TRUE, state |-> s]
        ELSE [raised |-> FALSE,
              state |-> [s EXCEPT !.latest_crosslinks = looped.latest_crosslinks]]

(***************************************************************************)
(* epoch_processing.py: validator registry and shuffling seed data         *)
(***************************************************************************)
\* eth2._utils.numeric.is_power_of_two: value is 1, 2, 4, 8, ...
RECURSIVE is_power_of_two(_)
is_power_of_two(value) ==
    IF value <= 0 THEN FALSE
    ELSE IF value = 1 THEN TRUE
    ELSE value % 2 = 0 /\ is_power_of_two(value \div 2)

Max(a, b) == IF a > b THEN a ELSE b

\* committee_helpers.get_epoch_committee_count
get_epoch_committee_count(active_validator_count, shard_count, epoch_length, target_committee_size) ==
    Max(1,
        Min(shard_count \div epoch_length,
            (active_validator_count \div epoch_length) \div target_committee_size))
        * epoch_length

\* committee_helpers.get_current_epoch_committee_count
get_current_epoch_committee_count(s, shard_count, epoch_length, target_committee_size) ==
    get_epoch_committee_count(
        Len(get_active_validator_indices(s.validator_registry,
                                         s.current_calculation_epoch)),
        shard_count, epoch_length, target_committee_size)

\* variant: the crosslink of a shard counts when it is as new as the registry
_check_if_update_validator_registry_lenient(s) ==
    IF s.finalized_epoch <= s.validator_registry_update_epoch
        THEN [need_to_update |-> FALSE, num_shards_in_committees |-> 0]
    ELSE
        LET num_shards_in_committees ==
                get_current_epoch_committee_count(s, SHARD_COUNT, EPOCH_LENGTH,
                                                  TARGET_COMMITTEE_SIZE)
            shards == { (s.current_epoch_start_shard + i) % SHARD_COUNT :
                            i \in 0 .. (num_shards_in_committees - 1) }
        IN  IF \E shard \in shards :
                   s.latest_crosslinks[shard].epoch < s.validator_registry_update_epoch
                THEN [need_to_update |-> FALSE, num_shards_in_committees |-> 0]
            ELSE [need_to_update |-> TRUE,
                  num_shards_in_committees |-> num_shards_in_committees]

_check_if_update_validator_registry(s) ==
    IF s.finalized_epoch <= s.validator_registry_update_epoch
        THEN [need_to_update |-> FALSE, num_shards_in_committees |-> 0]
    ELSE
        LET num_shards_in_committees ==
                get_current_epoch_committee_count(s, SHARD_COUNT, EPOCH_LENGTH,
                                                  TARGET_COMMITTEE_SIZE)
            \* every shard in the current committees
            shards == { (s.current_epoch_start_shard + i) % SHARD_COUNT :
                            i \in 0 .. (num_shards_in_committees - 1) }
        IN  IF \E shard \in shards :
                   s.latest_crosslinks[shard].epoch <= s.validator_registry_update_epoch
                THEN [need_to_update |-> FALSE, num_shards_in_committees |-> 0]
            ELSE [need_to_update |-> TRUE,
                  num_shards_in_committees |-> num_shards_in_committees]

\* variant: the update records the epoch at which it ran
update_validator_registry_stamped(s) ==
    [s EXCEPT !.validator_registry_update_epoch = current_epoch_of(s, EPOCH_LENGTH)]

\* TODO in the source: the registry is returned as it is
update_validator_registry(s) == s

\* variant: the seed is generated for the current epoch of the state
current_epoch_seed_of_current_epoch(s, config) ==
    generate_seed(s, current_epoch_of(s, EPOCH_LENGTH), EPOCH_LENGTH,
                  config.MIN_SEED_LOOKAHEAD, config.ACTIVATION_EXIT_DELAY,
                  LATEST_ACTIVE_INDEX_ROOTS_LENGTH, LATEST_RANDAO_MIXES_LENGTH)

\* generate_seed as process_validator_registry calls it, for the calculation
\* epoch the state carries
current_epoch_seed_of(s, config) ==
    generate_seed(s, s.current_calculation_epoch, EPOCH_LENGTH,
                  config.MIN_SEED_LOOKAHEAD, config.ACTIVATION_EXIT_DELAY,
                  LATEST_ACTIVE_INDEX_ROOTS_LENGTH, LATEST_RANDAO_MIXES_LENGTH)

\* variant: the snapshot is not taken
registry_snapshot_skipped(s) == s

\* lines 300-304: the values of the current shuffling become the previous ones
registry_snapshot(s) ==
    [s EXCEPT !.previous_calculation_epoch = s.current_calculation_epoch,
              !.previous_epoch_start_shard = s.current_epoch_start_shard,
              !.previous_epoch_seed = s.current_epoch_seed]

\* variant: the seed is generated before the calculation epoch is advanced
registry_update_due_stale_seed(snapshot, num_shards_in_committees, config) ==
    LET updated == update_validator_registry(snapshot)
        current_epoch_seed == current_epoch_seed_of(updated, config)
        advanced ==
            [updated EXCEPT !.current_calculation_epoch =
                                next_epoch_of(updated, EPOCH_LENGTH)]
        rotated ==
            [advanced EXCEPT !.current_epoch_start_shard =
                (advanced.current_epoch_start_shard + num_shards_in_committees)
                    % SHARD_COUNT]
    IN  IF current_epoch_seed.raised THEN ValidationError
        ELSE [raised |-> FALSE,
              state |-> [rotated EXCEPT !.current_epoch_seed =
                                            current_epoch_seed.value]]

\* lines 309-335: the branch taken when the registry update is due
registry_update_due(snapshot, num_shards_in_committees, config) ==
    LET updated == update_validator_registry(snapshot)
        advanced ==
            [updated EXCEPT !.current_calculation_epoch =
                                next_epoch_of(updated, EPOCH_LENGTH)]
        rotated ==
            [advanced EXCEPT !.current_epoch_start_shard =
                (advanced.current_epoch_start_shard + num_shards_in_committees)
                    % SHARD_COUNT]
        current_epoch_seed == current_epoch_seed_of(rotated, config)
    IN  IF current_epoch_seed.raised THEN ValidationError
        ELSE [raised |-> FALSE,
              state |-> [rotated EXCEPT !.current_epoch_seed =
                                            current_epoch_seed.value]]

\* variant: value & (value - 1) = 0 alone, which a gap of 0 passes
registry_update_not_due_zero_gap(snapshot, config) ==
    LET epochs_since_last_registry_change ==
            current_epoch_of(snapshot, EPOCH_LENGTH)
                - snapshot.validator_registry_update_epoch
    IN  IF \/ epochs_since_last_registry_change = 0
           \/ is_power_of_two(epochs_since_last_registry_change)
            THEN LET advanced ==
                         [snapshot EXCEPT !.current_calculation_epoch =
                                              next_epoch_of(snapshot, EPOCH_LENGTH)]
                     current_epoch_seed == current_epoch_seed_of(advanced, config)
                 IN  IF current_epoch_seed.raised THEN ValidationError
                     ELSE [raised |-> FALSE,
                           state |-> [advanced EXCEPT !.current_epoch_seed =
                                                          current_epoch_seed.value]]
        ELSE [raised |-> FALSE, state |-> snapshot]

\* variant: a failed seed lookup is swallowed and the state advanced so far is
\* returned
registry_update_not_due_partial(snapshot, config) ==
    LET epochs_since_last_registry_change ==
            current_epoch_of(snapshot, EPOCH_LENGTH)
                - snapshot.validator_registry_update_epoch
    IN  IF is_power_of_two(epochs_since_last_registry_change)
            THEN LET advanced ==
                         [snapshot EXCEPT !.current_calculation_epoch =
                                              next_epoch_of(snapshot, EPOCH_LENGTH)]
                     current_epoch_seed == current_epoch_seed_of(advanced, config)
                 IN  IF current_epoch_seed.raised
                         THEN [raised |-> FALSE, state |-> advanced]
                     ELSE [raised |-> FALSE,
                           state |-> [advanced EXCEPT !.current_epoch_seed =
                                                          current_epoch_seed.value]]
        ELSE [raised |-> FALSE, state |-> snapshot]

\* lines 337-362: the branch taken when the registry update is not due
registry_update_not_due(snapshot, config) ==
    LET epochs_since_last_registry_change ==
            current_epoch_of(snapshot, EPOCH_LENGTH)
                - snapshot.validator_registry_update_epoch
    IN  IF is_power_of_two(epochs_since_last_registry_change)
            THEN LET advanced ==
                         [snapshot EXCEPT !.current_calculation_epoch =
                                              next_epoch_of(snapshot, EPOCH_LENGTH)]
                     current_epoch_seed == current_epoch_seed_of(advanced, config)
                 IN  IF current_epoch_seed.raised THEN ValidationError
                     ELSE [raised |-> FALSE,
                           state |-> [advanced EXCEPT !.current_epoch_seed =
                                                          current_epoch_seed.value]]
        ELSE [raised |-> FALSE, state |-> snapshot]

process_validator_registry(s, config) ==
    LET snapshot == registry_snapshot(s)
        check == _check_if_update_validator_registry(snapshot)
    IN  IF check.need_to_update
            THEN registry_update_due(snapshot, check.num_shards_in_committees, config)
        ELSE registry_update_not_due(snapshot, config)

(***************************************************************************)
(* epoch_processing.py: final updates                                      *)
(***************************************************************************)
\* eth2._utils.tuple.update_tuple_item, for an index within the tuple
update_tuple_item(tuple_data, index, new_value) ==
    [tuple_data EXCEPT ![index] = new_value]

\* variant: the active set is taken at the next epoch, without the delay
_update_latest_active_index_roots_undelayed(s, config) ==
    LET next_epoch == next_epoch_of(s, EPOCH_LENGTH)
        active_validator_indices ==
            get_active_validator_indices(s.validator_registry, next_epoch)
        index_root == index_root_of(active_validator_indices)
        latest_active_index_roots ==
            update_tuple_item(s.latest_active_index_roots,
                              (next_epoch + config.ACTIVATION_EXIT_DELAY)
                                  % LATEST_ACTIVE_INDEX_ROOTS_LENGTH,
                              index_root)
    IN  [s EXCEPT !.latest_active_index_roots = latest_active_index_roots]

_update_latest_active_index_roots(s, config) ==
    LET next_epoch == next_epoch_of(s, EPOCH_LENGTH)
        active_validator_indices ==
            get_active_validator_indices(s.validator_registry,
                                         next_epoch + config.ACTIVATION_EXIT_DELAY)
        index_root == index_root_of(active_validator_indices)
        latest_active_index_roots ==
            update_tuple_item(s.latest_active_index_roots,
                              (next_epoch + config.ACTIVATION_EXIT_DELAY)
                                  % LATEST_ACTIVE_INDEX_ROOTS_LENGTH,
                              index_root)
    IN  [s EXCEPT !.latest_active_index_roots = latest_active_index_roots]

\* variant: the slashed balance of the next epoch's slot is carried backwards
copied_slashed_balances_backwards(s, current_epoch, next_epoch) ==
    update_tuple_item(
        s.latest_slashed_balances,
        current_epoch % LATEST_SLASHED_EXIT_LENGTH,
        s.latest_slashed_balances[next_epoch % LATEST_SLASHED_EXIT_LENGTH])

\* lines 413-417
copied_slashed_balances(s, current_epoch, next_epoch) ==
    update_tuple_item(
        s.latest_slashed_balances,
        next_epoch % LATEST_SLASHED_EXIT_LENGTH,
        s.latest_slashed_balances[current_epoch % LATEST_SLASHED_EXIT_LENGTH])

\* variant: the mix is stored under the length of its own buffer
copied_randao_mixes_own_length(s, next_epoch, randao_mix) ==
    update_tuple_item(
        s.latest_randao_mixes,
        next_epoch % LATEST_RANDAO_MIXES_LENGTH,
        randao_mix)

\* lines 418-427, with the mix get_randao_mix has returned; LATEST_SLASHED_EXIT_LENGTH
\* is no larger than LATEST_RANDAO_MIXES_LENGTH, so the index is within the tuple
copied_randao_mixes(s, next_epoch, randao_mix) ==
    update_tuple_item(
        s.latest_randao_mixes,
        next_epoch % LATEST_SLASHED_EXIT_LENGTH,
        randao_mix)

\* variant: the attestations of the current epoch are dropped as well
pruned_attestations_strict(s, current_epoch) ==
    SelectSeq(s.latest_attestations,
              LAMBDA attestation :
                  slot_to_epoch(attestation.data.slot, EPOCH_LENGTH) > current_epoch)

\* lines 430-437
pruned_attestations(s, current_epoch) ==
    SelectSeq(s.latest_attestations,
              LAMBDA attestation :
                  slot_to_epoch(attestation.data.slot, EPOCH_LENGTH) >= current_epoch)

process_final_updates(s, config) ==
    LET current_epoch == current_epoch_of(s, EPOCH_LENGTH)
        next_epoch == next_epoch_of(s, EPOCH_LENGTH)
        rooted == _update_latest_active_index_roots(s, config)
        randao_mix == get_randao_mix(rooted, current_epoch, EPOCH_LENGTH,
                                     LATEST_RANDAO_MIXES_LENGTH)
    IN  IF randao_mix.raised THEN ValidationError
        ELSE
          LET copied ==
                [rooted EXCEPT
                    !.latest_slashed_balances =
                        copied_slashed_balances(rooted, current_epoch, next_epoch),
                    !.latest_randao_mixes =
                        copied_randao_mixes(rooted, next_epoch, randao_mix.value)]
              latest_attestations == pruned_attestations(copied, current_epoch)
          IN  [raised |-> FALSE,
               state |-> [copied EXCEPT !.latest_attestations = latest_attestations]]

(***************************************************************************)
(* Genesis state and the environment of the transition functions           *)
(***************************************************************************)
FAR_FUTURE_EPOCH == GENESIS_EPOCH + MaxEpochs + 10

Shard == 0 .. (SHARD_COUNT - 1)

\* the first count validators are active from genesis on, the others join
\* an epoch later
Registry(count) ==
    [index \in ValidatorIndex |->
        [activation_epoch |-> IF index < count THEN GENESIS_EPOCH
                              ELSE GENESIS_EPOCH + 1,
         exit_epoch |-> FAR_FUTURE_EPOCH]]

\* validator index is activated index epochs after genesis
StaggeredRegistry ==
    [index \in ValidatorIndex |->
        [activation_epoch |-> GENESIS_EPOCH + index,
         exit_epoch |-> FAR_FUTURE_EPOCH]]

\* the first count validators hold balance 1, the others MaxBalance
BalancesOf(count) ==
    [index \in ValidatorIndex |-> IF index < count THEN 1 ELSE MaxBalance]

NoInput == [kind |-> "none"]

\* no helper has returned a value
NoResult == [kind |-> "none"]

\* the state at the last slot of the genesis epoch, before its epoch processing
GenesisState(registry, balances, start_shard, attestations) ==
    [slot |-> get_epoch_start_slot(GENESIS_EPOCH, EPOCH_LENGTH) + EPOCH_LENGTH - 1,
     validator_registry |-> registry,
     validator_balances |-> balances,
     latest_crosslinks |->
         [shard \in Shard |-> [epoch |-> GENESIS_EPOCH, shard_block_root |-> 0]],
     latest_attestations |-> attestations,
     justification_bitfield |-> 0,
     justified_epoch |-> GENESIS_EPOCH,
     previous_justified_epoch |-> GENESIS_EPOCH,
     finalized_epoch |-> GENESIS_EPOCH,
     previous_epoch_start_shard |-> start_shard,
     current_epoch_start_shard |-> start_shard,
     validator_registry_update_epoch |-> GENESIS_EPOCH,
     previous_calculation_epoch |-> GENESIS_EPOCH,
     current_calculation_epoch |-> GENESIS_EPOCH,
     previous_epoch_seed |-> ZERO_HASH32,
     current_epoch_seed |-> ZERO_HASH32,
     latest_randao_mixes |-> [i \in 0 .. (LATEST_RANDAO_MIXES_LENGTH - 1) |-> 0],
     latest_active_index_roots |->
         [i \in 0 .. (LATEST_ACTIVE_INDEX_ROOTS_LENGTH - 1) |->
             index_root_of(get_active_validator_indices(registry, GENESIS_EPOCH))],
     latest_slashed_balances |-> [i \in 0 .. (LATEST_SLASHED_EXIT_LENGTH - 1) |-> 0],
     latest_block_roots |-> [i \in 0 .. (LATEST_BLOCK_ROOTS_LENGTH - 1) |-> 0]]

InitJustification ==
    /\ returned = NoResult
    /\ \E active \in 0 .. NumValidators :
       \E poor \in 0 .. NumValidators :
            state = GenesisState(Registry(active), BalancesOf(poor), 0, <<>>)
    /\ pre = state
    /\ inp = NoInput
    /\ last = "genesis"
    /\ error = "none"

\* process_justification is run once at the end of every epoch
ProcessJustification ==
    /\ returned' = returned
    /\ last # "process_justification"
    /\ \E previous \in 0 .. MaxAttesting :
       \E current \in 0 .. MaxAttesting :
            LET boundary == [kind |-> "boundary",
                             previous |-> previous, current |-> current]
            IN  /\ state' = process_justification(state, boundary)
                /\ inp' = boundary
    /\ pre' = state
    /\ last' = "process_justification"
    /\ error' = "none"

\* the slots of the next epoch are processed: state.slot advances by one epoch
AdvanceEpoch ==
    /\ returned' = returned
    /\ last = "process_justification"
    /\ current_epoch_of(state, EPOCH_LENGTH) < GENESIS_EPOCH + MaxEpochs
    /\ state' = [state EXCEPT !.slot = state.slot + EPOCH_LENGTH]
    /\ pre' = state'
    /\ inp' = NoInput
    /\ last' = "advance"
    /\ error' = "none"

NextJustification == ProcessJustification \/ AdvanceEpoch

SpecJustification == InitJustification /\ [][NextJustification]_vars

(***************************************************************************)
(* The environment of process_crosslinks                                   *)
(***************************************************************************)
\* the shards, block roots and attesters the attestations of an epoch name
AttestedShards == <<0, 1>>

Roots == <<1, 2>>

Attesters == <<0, 1>>

\* the attestations a block may include at the current epoch of slot: number k
\* of them, one for every shard and root. Every attester signs alone and no
\* attester signs two roots of a shard; the even attesters signed at the first
\* slot of the previous epoch, the odd ones at the first slot of the current one.
NumAttestationChoices == Len(AttestedShards) * Len(Roots)

AttestationChoice(slot, k) ==
    LET current_epoch == slot_to_epoch(slot, EPOCH_LENGTH)
        previous_epoch == IF current_epoch > GENESIS_EPOCH THEN current_epoch - 1
                          ELSE current_epoch
        shard == AttestedShards[(k % Len(AttestedShards)) + 1]
        k1 == k \div Len(AttestedShards)
        root == Roots[(k1 % Len(Roots)) + 1]
        attester == Attesters[(((k % Len(AttestedShards)) + (k1 % Len(Roots)))
                                   % Len(Attesters)) + 1]
        epoch == IF attester % 2 = 0 THEN previous_epoch ELSE current_epoch
    IN  [data |-> [slot |-> get_epoch_start_slot(epoch, EPOCH_LENGTH),
                   shard |-> shard,
                   shard_block_root |-> root],
         participants |-> {attester}]

\* the tuples of at most MaxAttestations different attestations, listed in the
\* order of their numbers
AttestationLists(slot) ==
    UNION { { [i \in 1 .. n |-> AttestationChoice(slot, picks[i])] :
                picks \in { f \in [1 .. n -> 0 .. (NumAttestationChoices - 1)] :
                              \A i \in 1 .. n : \A j \in 1 .. n :
                                  i < j => f[i] < f[j] } } :
            n \in 0 .. MaxAttestations }

InitCrosslinks ==
    /\ returned = NoResult
    /\ \E start_shard \in Shard :
       \E attestations \in
               AttestationLists(get_epoch_start_slot(GENESIS_EPOCH, EPOCH_LENGTH)) :
            state = GenesisState(Registry(NumValidators), BalancesOf(1),
                                 start_shard, attestations)
    /\ pre = state
    /\ inp = NoInput
    /\ last = "genesis"
    /\ error = "none"

\* process_crosslinks is run once at the end of every epoch, on the state the
\* blocks of the epoch have left
ProcessCrosslinks ==
    /\ returned' = returned
    /\ last \in {"genesis", "blocks"}
    /\ LET result == process_crosslinks(state)
       IN  IF result.raised
               THEN /\ state' = state
                    /\ error' = "NoWinningRootError"
           ELSE /\ state' = result.state
                /\ error' = "none"
    /\ pre' = state
    /\ inp' = NoInput
    /\ last' = "process_crosslinks"

\* the rest of the epoch transition: the start shard of the current epoch
\* becomes the previous one and either stays or moves past the shards of the
\* epoch's committees, the attestations are dropped and state.slot moves on by
\* one epoch
AdvanceCrosslinkEpoch ==
    /\ returned' = returned
    /\ last = "process_crosslinks"
    /\ error = "none"
    /\ current_epoch_of(state, EPOCH_LENGTH) < GENESIS_EPOCH + MaxCrosslinkEpochs
    /\ \E start_shard \in {state.current_epoch_start_shard,
                            (state.current_epoch_start_shard + EPOCH_LENGTH)
                                % SHARD_COUNT} :
            state' = [state EXCEPT
                         !.slot = state.slot + EPOCH_LENGTH,
                         !.previous_epoch_start_shard = state.current_epoch_start_shard,
                         !.current_epoch_start_shard = start_shard,
                         !.latest_attestations = <<>>]
    /\ pre' = state'
    /\ inp' = NoInput
    /\ last' = "advance"
    /\ error' = "none"

\* the blocks of the epoch bring attestations of the previous and current epoch
IncludeAttestations ==
    /\ returned' = returned
    /\ last = "advance"
    /\ \E attestations \in AttestationLists(state.slot) :
            state' = [state EXCEPT !.latest_attestations = attestations]
    /\ pre' = state'
    /\ inp' = NoInput
    /\ last' = "blocks"
    /\ error' = "none"

NextCrosslinks == ProcessCrosslinks \/ AdvanceCrosslinkEpoch \/ IncludeAttestations

SpecCrosslinks == InitCrosslinks /\ [][NextCrosslinks]_vars

(***************************************************************************)
(* The environment of process_validator_registry and process_final_updates *)
(***************************************************************************)
\* the BeaconConfig of a chain: the fields that are not fixed above, from 0 to
\* a bound and, for each, the first value longer than the ring buffer it is
\* used with
Configs ==
    [kind : {"config"},
     MIN_SEED_LOOKAHEAD :
         (0 .. MaxSeedLookahead) \cup {LATEST_RANDAO_MIXES_LENGTH + 1},
     ACTIVATION_EXIT_DELAY :
         (0 .. MaxActivationExitDelay) \cup {LATEST_ACTIVE_INDEX_ROOTS_LENGTH + 1}]

\* the shards of the committees of the current epoch of s
CurrentShards(s) ==
    { (s.current_epoch_start_shard + i) % SHARD_COUNT :
          i \in 0 .. (get_current_epoch_committee_count(s, SHARD_COUNT, EPOCH_LENGTH,
                                                         TARGET_COMMITTEE_SIZE) - 1) }

\* the genesis state of a chain whose ring buffers hold recognisable entries:
\* mix i + 1 and slashed balance i + 1 at index i
InitRotation ==
    /\ returned = NoResult
    /\ \E registry \in {Registry(NumValidators), StaggeredRegistry} :
       \E start_shard \in Shard :
            state = [GenesisState(registry, BalancesOf(1), start_shard, <<>>)
                        EXCEPT !.latest_randao_mixes =
                                   [i \in 0 .. (LATEST_RANDAO_MIXES_LENGTH - 1) |-> i + 1],
                               !.latest_slashed_balances =
                                   [i \in 0 .. (LATEST_SLASHED_EXIT_LENGTH - 1) |-> i + 1]]
    /\ pre = state
    /\ inp \in Configs
    /\ last = "genesis"
    /\ error = "none"

\* what the blocks of the epoch and the two earlier steps of its transition
\* leave: finalized_epoch stays or becomes the previous epoch, the crosslinks of
\* a set of shards are renewed, an attestation of the previous epoch is pending
\* between two of the current epoch
EpochResults ==
    /\ returned' = returned
    /\ last \in {"genesis", "advance"}
    /\ \E finalized_epoch \in {state.finalized_epoch,
                               previous_epoch_of(state, EPOCH_LENGTH, GENESIS_EPOCH)} :
       \E renewed \in {{}, {state.current_epoch_start_shard},
                       CurrentShards(state), Shard} :
            state' = [state EXCEPT
                         !.finalized_epoch = finalized_epoch,
                         !.latest_crosslinks =
                             [shard \in Shard |->
                                 IF shard \in renewed
                                 THEN [epoch |-> current_epoch_of(state, EPOCH_LENGTH),
                                       shard_block_root |-> Roots[1]]
                                 ELSE state.latest_crosslinks[shard]],
                         !.latest_attestations =
                             <<AttestationChoice(state.slot, 1),
                               AttestationChoice(state.slot, 0),
                               AttestationChoice(state.slot, 2)>>]
    /\ pre' = state'
    /\ inp' = inp
    /\ last' = "results"
    /\ error' = "none"

\* a ValidationError leaves the call without a state: the caller still holds
\* the state it passed
ProcessValidatorRegistry ==
    /\ returned' = returned
    /\ last = "results"
    /\ LET result == process_validator_registry(state, inp)
       IN  IF result.raised
               THEN /\ state' = state
                    /\ error' = "ValidationError"
           ELSE /\ state' = result.state
                /\ error' = "none"
    /\ pre' = state
    /\ inp' = inp
    /\ last' = "process_validator_registry"

ProcessFinalUpdates ==
    /\ returned' = returned
    /\ last = "process_validator_registry"
    /\ error = "none"
    /\ LET result == process_final_updates(state, inp)
       IN  IF result.raised
               THEN /\ state' = state
                    /\ error' = "ValidationError"
           ELSE /\ state' = result.state
                /\ error' = "none"
    /\ pre' = state
    /\ inp' = inp
    /\ last' = "process_final_updates"

\* the slots of the next epoch are processed: state.slot advances by one epoch
AdvanceRotationEpoch ==
    /\ returned' = returned
    /\ last = "process_final_updates"
    /\ error = "none"
    /\ current_epoch_of(state, EPOCH_LENGTH) < GENESIS_EPOCH + MaxRotationEpochs
    /\ state' = [state EXCEPT !.slot = state.slot + EPOCH_LENGTH]
    /\ pre' = state
    /\ inp' = inp
    /\ last' = "advance"
    /\ error' = "none"

NextRotation ==
    \/ EpochResults
    \/ ProcessValidatorRegistry
    \/ ProcessFinalUpdates
    \/ AdvanceRotationEpoch

SpecRotation == InitRotation /\ [][NextRotation]_vars

(***************************************************************************)
(* The ring-buffer lookups of helpers.py, applied to states of a chain     *)
(***************************************************************************)
\* last slot of the states the lookups are applied to
MaxLookupSlot == 9

\* a state at some slot: entry i of its ring buffers holds mix i + 1, the root
\* of the index tuple <<i>> and block root i + 1, except the entry blank, which
\* holds the values of genesis (blank past the buffers: no such entry)
LookupState(slot, blank) ==
    [GenesisState(Registry(NumValidators), BalancesOf(1), 0, <<>>) EXCEPT
        !.slot = slot,
        !.latest_randao_mixes =
            [i \in 0 .. (LATEST_RANDAO_MIXES_LENGTH - 1) |->
                IF i = blank THEN 0 ELSE i + 1],
        !.latest_active_index_roots =
            [i \in 0 .. (LATEST_ACTIVE_INDEX_ROOTS_LENGTH - 1) |->
                IF i = blank THEN index_root_of(<<>>) ELSE index_root_of(<<i>>)],
        !.latest_block_roots =
            [i \in 0 .. (LATEST_BLOCK_ROOTS_LENGTH - 1) |->
                IF i = blank THEN 0 ELSE i + 1]]

LookupStates ==
    { LookupState(slot, blank) :
          slot \in 0 .. MaxLookupSlot, blank \in 0 .. LATEST_RANDAO_MIXES_LENGTH }

\* the epochs and slots asked for: from before the first one to past the last
\* one any window of a lookup state holds
LookupEpochs ==
    (0 - 1) .. (slot_to_epoch(MaxLookupSlot, EPOCH_LENGTH) + MaxActivationExitDelay + 1)

LookupSlots == (0 - 1) .. (MaxLookupSlot + 1)

InitLookups ==
    /\ state \in LookupStates
    /\ pre = state
    /\ inp = NoInput
    /\ last = "state"
    /\ error = "none"
    /\ returned = NoResult

GetRandaoMix ==
    /\ last = "state"
    /\ \E epoch \in LookupEpochs :
            LET result == get_randao_mix(state, epoch, EPOCH_LENGTH,
                                         LATEST_RANDAO_MIXES_LENGTH)
            IN  /\ returned' = result
                /\ error' = IF result.raised THEN "ValidationError" ELSE "none"
                /\ inp' = [kind |-> "get_randao_mix", epoch |-> epoch]
    /\ state' = state
    /\ pre' = state
    /\ last' = "get_randao_mix"

GetActiveIndexRoot ==
    /\ last = "state"
    /\ \E epoch \in LookupEpochs :
       \E activation_exit_delay \in 0 .. MaxActivationExitDelay :
            LET result == get_active_index_root(state, epoch, EPOCH_LENGTH,
                                                activation_exit_delay,
                                                LATEST_ACTIVE_INDEX_ROOTS_LENGTH)
            IN  /\ returned' = result
                /\ error' = IF result.raised THEN "ValidationError" ELSE "none"
                /\ inp' = [kind |-> "get_active_index_root", epoch |-> epoch,
                           activation_exit_delay |-> activation_exit_delay]
    /\ state' = state
    /\ pre' = state
    /\ last' = "get_active_index_root"

GetBlockRoot ==
    /\ last = "state"
    /\ \E slot \in LookupSlots :
            LET result == get_block_root(state, slot, LATEST_BLOCK_ROOTS_LENGTH)
            IN  /\ returned' = result
                /\ error' = IF result.raised THEN "ValidationError" ELSE "none"
                /\ inp' = [kind |-> "get_block_root", slot |-> slot]
    /\ state' = state
    /\ pre' = state
    /\ last' = "get_block_root"

\* an epoch is an unsigned number: generate_seed encodes it in 32 bytes
GenerateSeed ==
    /\ last = "state"
    /\ \E epoch \in LookupEpochs \cap Nat :
       \E config \in Configs :
            LET result == generate_seed(state, epoch, EPOCH_LENGTH,
                                        config.MIN_SEED_LOOKAHEAD,
                                        config.ACTIVATION_EXIT_DELAY,
                                        LATEST_ACTIVE_INDEX_ROOTS_LENGTH,
                                        LATEST_RANDAO_MIXES_LENGTH)
            IN  /\ returned' = result
                /\ error' = IF result.raised THEN "ValidationError" ELSE "none"
                /\ inp' = [kind |-> "generate_seed", epoch |-> epoch,
                           config |-> config]
    /\ state' = state
    /\ pre' = state
    /\ last' = "generate_seed"

NextLookups ==
    \/ GetRandaoMix
    \/ GetActiveIndexRoot
    \/ GetBlockRoot
    \/ GenerateSeed

SpecLookups == InitLookups /\ [][NextLookups]_vars

(***************************************************************************)
(* The pure helpers of helpers.py, applied to arguments                    *)
(***************************************************************************)
\* the attestation data the vote predicates compare
MaxVoteSlot == 5

MaxVoteEpoch == 2

AttestationDatas == [slot : 0 .. MaxVoteSlot, justified_epoch : 0 .. MaxVoteEpoch]

\* the balance tuples and index tuples get_total_balance is applied to
NumBalances == 3

MaxIndices == 2

BalanceTuples == [0 .. (NumBalances - 1) -> 0 .. MaxBalance]

IndexTuples == UNION { [1 .. n -> 0 .. (NumBalances - 1)] : n \in 0 .. MaxIndices }

\* the forks, epochs and domain types get_domain is applied to: domain types
\* from 0, and the two around 2^32
MaxVersion == 1

MaxForkEpoch == 1

MaxDomainType == 1

Versions == { int_digits(version) : version \in 0 .. MaxVersion }

Forks ==
    [previous_version : Versions, current_version : Versions, epoch : 0 .. MaxForkEpoch]

DomainTypes ==
    { int_digits(domain_type) : domain_type \in 0 .. MaxDomainType }
        \cup { <<DigitBase - 1, DigitBase - 1>>, <<0, 0, 1>> }

\* the epoch lengths the time unit conversions are applied with
MaxEpochLength == 3

InitArithmetic ==
    /\ state = GenesisState(Registry(NumValidators), BalancesOf(1), 0, <<>>)
    /\ pre = state
    /\ inp = NoInput
    /\ last = "state"
    /\ error = "none"
    /\ returned = NoResult

\* the callers pass two distinct attestation data
IsDoubleVote ==
    /\ last = "state"
    /\ \E attestation_data_1 \in AttestationDatas :
       \E attestation_data_2 \in AttestationDatas \ {attestation_data_1} :
            /\ returned' = is_double_vote(attestation_data_1, attestation_data_2,
                                          EPOCH_LENGTH)
            /\ inp' = [kind |-> "is_double_vote",
                       attestation_data_1 |-> attestation_data_1,
                       attestation_data_2 |-> attestation_data_2]
    /\ UNCHANGED <<state, pre, error>>
    /\ last' = "is_double_vote"

IsSurroundVote ==
    /\ last = "state"
    /\ \E attestation_data_1 \in AttestationDatas :
       \E attestation_data_2 \in AttestationDatas \ {attestation_data_1} :
            /\ returned' = is_surround_vote(attestation_data_1, attestation_data_2,
                                            EPOCH_LENGTH)
            /\ inp' = [kind |-> "is_surround_vote",
                       attestation_data_1 |-> attestation_data_1,
                       attestation_data_2 |-> attestation_data_2]
    /\ UNCHANGED <<state, pre, error>>
    /\ last' = "is_surround_vote"

GetTotalBalance ==
    /\ last = "state"
    /\ \E validator_balances \in BalanceTuples :
       \E validator_indices \in IndexTuples :
            /\ returned' = get_total_balance(validator_balances, validator_indices,
                                             MAX_DEPOSIT_AMOUNT)
            /\ inp' = [kind |-> "get_total_balance",
                       validator_balances |-> validator_balances,
                       validator_indices |-> validator_indices]
    /\ UNCHANGED <<state, pre, error>>
    /\ last' = "get_total_balance"

GetDomain ==
    /\ last = "state"
    /\ \E fork \in Forks :
       \E epoch \in 0 .. (MaxForkEpoch + 1) :
       \E domain_type \in DomainTypes :
            /\ returned' = get_domain(fork, epoch, domain_type)
            /\ inp' = [kind |-> "get_domain", fork |-> fork, epoch |-> epoch,
                       domain_type |-> domain_type]
    /\ UNCHANGED <<state, pre, error>>
    /\ last' = "get_domain"

SlotToEpoch ==
    /\ last = "state"
    /\ \E slot \in 0 .. MaxLookupSlot :
       \E epoch_length \in 1 .. MaxEpochLength :
            /\ returned' = slot_to_epoch(slot, epoch_length)
            /\ inp' = [kind |-> "slot_to_epoch", slot |-> slot,
                       epoch_length |-> epoch_length]
    /\ UNCHANGED <<state, pre, error>>
    /\ last' = "slot_to_epoch"

GetEpochStartSlot ==
    /\ last = "state"
    /\ \E epoch \in 0 .. MaxEpochs :
       \E epoch_length \in 1 .. MaxEpochLength :
            /\ returned' = get_epoch_start_slot(epoch, epoch_length)
            /\ inp' = [kind |-> "get_epoch_start_slot", epoch |-> epoch,
                       epoch_length |-> epoch_length]
    /\ UNCHANGED <<state, pre, error>>
    /\ last' = "get_epoch_start_slot"

NextArithmetic ==
    \/ IsDoubleVote
    \/ IsSurroundVote
    \/ GetTotalBalance
    \/ GetDomain
    \/ SlotToEpoch
    \/ GetEpochStartSlot

SpecArithmetic == InitArithmetic /\ [][NextArithmetic]_vars

(***************************************************************************)
(* Properties of the justification state machine                           *)
(***************************************************************************)
AfterJustification == last = "process_justification"

\* the epochs of the call whose input is pre
CurrentEpochOfCall == pre.slot \div EPOCH_LENGTH

PreviousEpochOfCall ==
    IF CurrentEpochOfCall > GENESIS_EPOCH THEN CurrentEpochOfCall - 1
    ELSE CurrentEpochOfCall

\* bit k of a non-negative integer
Bit(n, k) == (n \div (2 ^ k)) % 2

RECURSIVE SetSum(_, _)
SetSum(S, f) ==
    IF S = {} THEN 0
    ELSE LET x == CHOOSE y \in S : TRUE IN f[x] + SetSum(S \ {x}, f)

\* total effective balance of the validators of pre active in epoch
ActiveTotalBalance(epoch) ==
    LET active == { i \in ValidatorIndex :
                      /\ pre.validator_registry[i].activation_epoch <= epoch
                      /\ epoch < pre.validator_registry[i].exit_epoch }
        capped == [i \in ValidatorIndex |->
                      IF pre.validator_balances[i] > MAX_DEPOSIT_AMOUNT
                      THEN MAX_DEPOSIT_AMOUNT ELSE pre.validator_balances[i]]
    IN  SetSum(active, capped)

CurrentJustifiable == 3 * inp.current >= 2 * ActiveTotalBalance(CurrentEpochOfCall)

PreviousJustifiable == 3 * inp.previous >= 2 * ActiveTotalBalance(PreviousEpochOfCall)

\* C1: monotonic finality: along every sequence of epoch transitions from
\* genesis, no step lowers finalized_epoch.
C1_MonotonicFinality ==
    [][state'.finalized_epoch >= state.finalized_epoch]_vars

\* a transition that has moved finality forward
C1_Witness ==
    /\ AfterJustification
    /\ state.finalized_epoch > pre.finalized_epoch

\* C2 as stated: the old bitfield shifted left by one, bit 0 (value 1) set
\* exactly when the previous epoch is justifiable and bit 1 (value 2) OR-ed in
\* exactly when the current epoch is justifiable.
C2_BitfieldAsClaimed ==
    AfterJustification =>
        state.justification_bitfield =
            BitOr(BitOr(2 * pre.justification_bitfield,
                        IF PreviousJustifiable THEN 1 ELSE 0),
                  IF CurrentJustifiable THEN 2 ELSE 0)

\* C2 amended: the old bitfield shifted left by one, bit 0 (value 1) set exactly
\* when the current epoch is justifiable and bit 1 (value 2) OR-ed in exactly
\* when the previous epoch is justifiable; from bitfield 0 with both epochs
\* justifiable the result is 0b11.
C2_Bitfield ==
    AfterJustification =>
        /\ state.justification_bitfield =
               BitOr(BitOr(2 * pre.justification_bitfield,
                           IF CurrentJustifiable THEN 1 ELSE 0),
                     IF PreviousJustifiable THEN 2 ELSE 0)
        /\ Bit(state.justification_bitfield, 0) = 1 <=> CurrentJustifiable
        /\ Bit(state.justification_bitfield, 1) = 1 <=>
               (PreviousJustifiable \/ Bit(pre.justification_bitfield, 0) = 1)
        /\ (pre.justification_bitfield = 0 /\ CurrentJustifiable /\ PreviousJustifiable)
               => state.justification_bitfield = 3

\* only the previous epoch was justifiable, the old low bit being clear
C2_Witness ==
    /\ AfterJustification
    /\ PreviousJustifiable
    /\ ~CurrentJustifiable
    /\ Bit(pre.justification_bitfield, 0) = 0
    /\ pre.justification_bitfield > 0
    /\ state.justification_bitfield = 2 * pre.justification_bitfield + 2

\* C3: bitfield shift invariant: the new bitfield is (old << 1) | m for some m
\* in 0 .. 3: every bit at position >= 2 is the old bit one position lower, no
\* old bit is dropped, no other bit is set.
C3_BitfieldShift ==
    AfterJustification =>
        /\ \E m \in 0 .. 3 :
               state.justification_bitfield = BitOr(2 * pre.justification_bitfield, m)
        /\ state.justification_bitfield \div 4 = pre.justification_bitfield \div 2
        /\ Bit(pre.justification_bitfield, 0) = 1
               => Bit(state.justification_bitfield, 1) = 1

\* an old bitfield with bits above bit 0 has been shifted
C3_Witness ==
    /\ AfterJustification
    /\ pre.justification_bitfield >= 4
    /\ state.justification_bitfield >= 8

\* the four finality rules on the values process_justification hands over
Rule4 ==
    /\ state.justification_bitfield % 4 = 3
    /\ pre.justified_epoch = PreviousEpochOfCall

Rule3 ==
    /\ state.justification_bitfield % 8 = 7
    /\ pre.justified_epoch = PreviousEpochOfCall - 1

Rule2 ==
    /\ (state.justification_bitfield \div 2) % 4 = 3
    /\ pre.previous_justified_epoch = PreviousEpochOfCall - 1

Rule1 ==
    /\ (state.justification_bitfield \div 2) % 8 = 7
    /\ pre.previous_justified_epoch = PreviousEpochOfCall - 2

\* the epochs the matching rules would finalize
MatchingRuleEpochs ==
    (IF Rule4 \/ Rule3 THEN {pre.justified_epoch} ELSE {}) \cup
    (IF Rule2 \/ Rule1 THEN {pre.previous_justified_epoch} ELSE {})

\* C4: the finality rules are tried in the order 4, 3, 2, 1 and the first match
\* decides; without a match finalized_epoch is unchanged; with several matches
\* the epoch finalized is the highest the matching rules would finalize.
C4_FinalityRules ==
    AfterJustification =>
        /\ state.finalized_epoch =
               (IF Rule4 THEN pre.justified_epoch
                ELSE IF Rule3 THEN pre.justified_epoch
                ELSE IF Rule2 THEN pre.previous_justified_epoch
                ELSE IF Rule1 THEN pre.previous_justified_epoch
                ELSE pre.finalized_epoch)
        /\ MatchingRuleEpochs # {} =>
               /\ state.finalized_epoch \in MatchingRuleEpochs
               /\ \A e \in MatchingRuleEpochs : e <= state.finalized_epoch

\* rule 4 and rule 2 match together and would finalize different epochs
C4_Witness ==
    /\ AfterJustification
    /\ Rule4
    /\ Rule2
    /\ pre.previous_justified_epoch < pre.justified_epoch
    /\ state.finalized_epoch = pre.justified_epoch

\* C5: the new justified_epoch is the current epoch if it is justifiable, else
\* the previous epoch if that is justifiable, else unchanged.
C5_JustifiedEpoch ==
    AfterJustification =>
        state.justified_epoch =
            (IF CurrentJustifiable THEN CurrentEpochOfCall
             ELSE IF PreviousJustifiable THEN PreviousEpochOfCall
             ELSE pre.justified_epoch)

\* both epochs justifiable, and they are different epochs
C5_Witness ==
    /\ AfterJustification
    /\ CurrentJustifiable
    /\ PreviousJustifiable
    /\ PreviousEpochOfCall < CurrentEpochOfCall
    /\ state.justified_epoch = CurrentEpochOfCall

\* C6: read before write: the new previous_justified_epoch is the justified_epoch
\* of the input state.
C6_ReadBeforeWrite ==
    AfterJustification => state.previous_justified_epoch = pre.justified_epoch

\* the transition overwrote justified_epoch and fired a finality rule
C6_Witness ==
    /\ AfterJustification
    /\ state.justified_epoch # pre.justified_epoch
    /\ state.finalized_epoch # pre.finalized_epoch
    /\ state.previous_justified_epoch = pre.justified_epoch

AfterCrosslinks == last = "process_crosslinks"

\* the (committee, shard) pairs the call with input pre visited, in order
VisitedPairs ==
    crosslink_pairs(pre, PreviousEpochOfCall * EPOCH_LENGTH,
                    (CurrentEpochOfCall + 1) * EPOCH_LENGTH)

\* latest_crosslinks after each visit of the call with input pre
RECURSIVE CrosslinksAfterVisits(_, _)
CrosslinksAfterVisits(latest_crosslinks, pairs) ==
    IF pairs = <<>> THEN <<>>
    ELSE LET after == crosslink_step(pre, latest_crosslinks, Head(pairs)).latest_crosslinks
         IN  <<after>> \o CrosslinksAfterVisits(after, Tail(pairs))

CrosslinksBeforeVisit(i) ==
    IF i = 1 THEN pre.latest_crosslinks
    ELSE CrosslinksAfterVisits(pre.latest_crosslinks, VisitedPairs)[i - 1]

CrosslinksAfterVisit(i) ==
    CrosslinksAfterVisits(pre.latest_crosslinks, VisitedPairs)[i]

\* the attestations of pre of the previous or current epoch that target shard
TargetingAttestations(shard) ==
    SelectSeq(pre.latest_attestations,
              LAMBDA a : /\ a.data.shard = shard
                         /\ (a.data.slot \div EPOCH_LENGTH)
                                \in {PreviousEpochOfCall, CurrentEpochOfCall})

WinningRootOf(shard) ==
    get_winning_root(pre, shard, TargetingAttestations(shard), MAX_DEPOSIT_AMOUNT)

\* total effective balance of a committee
CommitteeBalance(committee) ==
    SetSum({committee[k] : k \in 1 .. Len(committee)},
           [i \in ValidatorIndex |->
               IF pre.validator_balances[i] > MAX_DEPOSIT_AMOUNT
               THEN MAX_DEPOSIT_AMOUNT ELSE pre.validator_balances[i]])

MeetsThreshold(pair) ==
    3 * WinningRootOf(pair.shard).total_attesting_balance
        >= 2 * CommitteeBalance(pair.committee)

\* C8: crosslink monotonicity: process_crosslinks leaves the epoch of the record
\* of every shard as it was or sets it to the current epoch, and no step of a
\* run in which state.slot only advances lowers it.
C8_CrosslinkMonotonic ==
    [][\A shard \in Shard :
          /\ state'.latest_crosslinks[shard].epoch >= state.latest_crosslinks[shard].epoch
          /\ last' = "process_crosslinks" =>
                state'.latest_crosslinks[shard].epoch \in
                    {state.latest_crosslinks[shard].epoch, state.slot \div EPOCH_LENGTH}]_vars

\* a record of an earlier, non-genesis epoch is replaced while another stays
C8_Witness ==
    /\ AfterCrosslinks
    /\ \E shard \in Shard :
          /\ pre.latest_crosslinks[shard].epoch > GENESIS_EPOCH
          /\ state.latest_crosslinks[shard].epoch > pre.latest_crosslinks[shard].epoch
    /\ \E shard \in Shard :
          /\ state.latest_crosslinks[shard] = pre.latest_crosslinks[shard]
          /\ state.latest_crosslinks[shard].epoch < CurrentEpochOfCall

\* C9: at the visit of a (committee, shard) pair with a winning root, the record
\* of the shard becomes {current epoch, winning root} if 3 * attesting balance
\* >= 2 * committee balance, and otherwise latest_crosslinks stays as it is.
C9_CrosslinkThreshold ==
    AfterCrosslinks =>
      LET pairs == VisitedPairs
          afters == CrosslinksAfterVisits(pre.latest_crosslinks, pairs)
          before(i) == IF i = 1 THEN pre.latest_crosslinks ELSE afters[i - 1]
      IN
        /\ error = "none"
        /\ \A i \in 1 .. Len(pairs) :
              LET pair == pairs[i]
                  winning == WinningRootOf(pair.shard)
              IN  ~winning.raised =>
                      afters[i] =
                          (IF MeetsThreshold(pair)
                           THEN [before(i) EXCEPT ![pair.shard] =
                                    [epoch |-> CurrentEpochOfCall,
                                     shard_block_root |-> winning.winning_root]]
                           ELSE before(i))
        /\ state.latest_crosslinks =
               (IF pairs = <<>> THEN pre.latest_crosslinks ELSE afters[Len(pairs)])
        /\ \A shard \in Shard :
              (\A i \in 1 .. Len(pairs) :
                    pairs[i].shard = shard =>
                        (WinningRootOf(shard).raised \/ ~MeetsThreshold(pairs[i])))
                  => state.latest_crosslinks[shard] = pre.latest_crosslinks[shard]

\* one pair met the threshold exactly and its record was replaced, another pair
\* had a winning root below the threshold and its record was retained
C9_Witness ==
    /\ AfterCrosslinks
    /\ \E i \in 1 .. Len(VisitedPairs) :
          LET pair == VisitedPairs[i]
          IN  /\ ~WinningRootOf(pair.shard).raised
              /\ CommitteeBalance(pair.committee) > 0
              /\ 3 * WinningRootOf(pair.shard).total_attesting_balance
                     = 2 * CommitteeBalance(pair.committee)
              /\ state.latest_crosslinks[pair.shard] # pre.latest_crosslinks[pair.shard]
    /\ \E shard \in Shard :
          /\ ~WinningRootOf(shard).raised
          /\ \E i \in 1 .. Len(VisitedPairs) : VisitedPairs[i].shard = shard
          /\ \A i \in 1 .. Len(VisitedPairs) :
                VisitedPairs[i].shard = shard => ~MeetsThreshold(VisitedPairs[i])
          /\ state.latest_crosslinks[shard] = pre.latest_crosslinks[shard]

\* no attestation of the previous or current epoch targets shard
NoAttestationTargets(shard) ==
    \A k \in 1 .. Len(pre.latest_attestations) :
        \/ pre.latest_attestations[k].data.shard # shard
        \/ (pre.latest_attestations[k].data.slot \div EPOCH_LENGTH)
               \notin {PreviousEpochOfCall, CurrentEpochOfCall}

\* C10: when no attestation targets a shard, the visit of its pair leaves
\* latest_crosslinks untouched, the loops go on with the remaining pairs, and
\* process_crosslinks returns a state: NoWinningRootError does not leave it.
C10_NoWinningRoot ==
    AfterCrosslinks =>
      LET pairs == VisitedPairs
          afters == CrosslinksAfterVisits(pre.latest_crosslinks, pairs)
          before(i) == IF i = 1 THEN pre.latest_crosslinks ELSE afters[i - 1]
      IN
        /\ error = "none"
        /\ state = [pre EXCEPT !.latest_crosslinks = state.latest_crosslinks]
        /\ \A i \in 1 .. Len(pairs) :
              NoAttestationTargets(pairs[i].shard) => afters[i] = before(i)
        /\ \A shard \in Shard :
              NoAttestationTargets(shard) =>
                  state.latest_crosslinks[shard] = pre.latest_crosslinks[shard]
        /\ \A i \in 1 .. Len(pairs) :
              (~NoAttestationTargets(pairs[i].shard) /\ MeetsThreshold(pairs[i]))
                  => state.latest_crosslinks[pairs[i].shard].epoch
                         = CurrentEpochOfCall

\* a visited shard had no attestation and a pair visited after it was updated
C10_Witness ==
    /\ AfterCrosslinks
    /\ error = "none"
    /\ \E i \in 1 .. Len(VisitedPairs) :
       \E j \in 1 .. Len(VisitedPairs) :
          /\ i < j
          /\ NoAttestationTargets(VisitedPairs[i].shard)
          /\ state.latest_crosslinks[VisitedPairs[j].shard]
                 # pre.latest_crosslinks[VisitedPairs[j].shard]
          /\ CrosslinksAfterVisit(j) # CrosslinksBeforeVisit(j)

\* the shards of the committees the call with input pre visited
VisitedShards == {VisitedPairs[i].shard : i \in 1 .. Len(VisitedPairs)}

\* C11: frame of process_crosslinks: every field of the returned state but
\* latest_crosslinks is the field of the input state, and the record of a shard
\* no committee of the window [previous epoch start, next epoch start) is
\* assigned to is the record of the input state.
C11_CrosslinkFrame ==
    AfterCrosslinks =>
        /\ DOMAIN state = DOMAIN pre
        /\ \A field \in DOMAIN pre \ {"latest_crosslinks"} : state[field] = pre[field]
        /\ DOMAIN state.latest_crosslinks = DOMAIN pre.latest_crosslinks
        /\ \A shard \in Shard \ VisitedShards :
              state.latest_crosslinks[shard] = pre.latest_crosslinks[shard]

\* a call that replaced the record of a visited shard while an attestation
\* targeted a shard outside the window's committees
C11_Witness ==
    /\ AfterCrosslinks
    /\ error = "none"
    /\ \E shard \in VisitedShards :
          state.latest_crosslinks[shard] # pre.latest_crosslinks[shard]
    /\ \E shard \in Shard \ VisitedShards :
          /\ ~NoAttestationTargets(shard)
          /\ state.latest_crosslinks[shard] = pre.latest_crosslinks[shard]


\* the visits of pairs with the visits at positions i and j exchanged
ExchangedVisits(pairs, i, j) ==
    [k \in 1 .. Len(pairs) |->
        IF k = i THEN pairs[j] ELSE IF k = j THEN pairs[i] ELSE pairs[k]]

\* the visits of pairs from the last to the first
ReversedVisits(pairs) ==
    [k \in 1 .. Len(pairs) |-> pairs[Len(pairs) + 1 - k]]

\* latest_crosslinks when the loops of the call with input pre visit pairs
CrosslinksVisiting(pairs) ==
    crosslink_loop(pre, pre.latest_crosslinks, pairs).latest_crosslinks

\* C12: order independence of process_crosslinks: the record of a shard is
\* {current epoch, winning root} if some visited committee of the shard meets
\* the threshold and the input record otherwise, whichever committee is visited
\* last; visiting the pairs in reverse, or with any two visits exchanged,
\* gives the same latest_crosslinks.
C12_OrderIndependence ==
    AfterCrosslinks =>
      LET pairs == VisitedPairs
      IN
        /\ \A shard \in Shard :
              state.latest_crosslinks[shard] =
                  (IF \E i \in 1 .. Len(pairs) :
                          /\ pairs[i].shard = shard
                          /\ ~WinningRootOf(shard).raised
                          /\ MeetsThreshold(pairs[i])
                   THEN [epoch |-> CurrentEpochOfCall,
                         shard_block_root |-> WinningRootOf(shard).winning_root]
                   ELSE pre.latest_crosslinks[shard])
        /\ CrosslinksVisiting(ReversedVisits(pairs)) = state.latest_crosslinks
        /\ \A i \in 1 .. Len(pairs) :
           \A j \in (i + 1) .. Len(pairs) :
              CrosslinksVisiting(ExchangedVisits(pairs, i, j)) = state.latest_crosslinks

\* a shard is assigned to two committees, the first visited meets the threshold,
\* the one visited after it does not, and the record of the shard is replaced
C12_Witness ==
    /\ AfterCrosslinks
    /\ \E i \in 1 .. Len(VisitedPairs) :
       \E j \in 1 .. Len(VisitedPairs) :
          /\ i < j
          /\ VisitedPairs[i].shard = VisitedPairs[j].shard
          /\ VisitedPairs[i].committee # VisitedPairs[j].committee
          /\ ~WinningRootOf(VisitedPairs[i].shard).raised
          /\ MeetsThreshold(VisitedPairs[i])
          /\ ~MeetsThreshold(VisitedPairs[j])
          /\ state.latest_crosslinks[VisitedPairs[i].shard].epoch = CurrentEpochOfCall
          /\ pre.latest_crosslinks[VisitedPairs[i].shard].epoch < CurrentEpochOfCall


(***************************************************************************)
(* Properties of the registry rotation controller                          *)
(***************************************************************************)
AfterRegistry == last = "process_validator_registry"

\* the number of committees, and so of shards, of the current epoch of pre
CommitteeCountOfCall ==
    get_current_epoch_committee_count(pre, SHARD_COUNT, EPOCH_LENGTH,
                                      TARGET_COMMITTEE_SIZE)

\* the registry update is due in pre
UpdateDue ==
    /\ pre.finalized_epoch > pre.validator_registry_update_epoch
    /\ \A i \in 0 .. (CommitteeCountOfCall - 1) :
          pre.latest_crosslinks[(pre.current_epoch_start_shard + i) % SHARD_COUNT].epoch
              > pre.validator_registry_update_epoch

\* C13: the trigger check reports due exactly when finalized_epoch is past
\* validator_registry_update_epoch and so is the crosslink epoch of every shard
\* of the current epoch's committees; it returns the committee count when due
\* and 0 otherwise, and the start shard moves by that count only when due.
C13_TriggerCheck ==
    AfterRegistry =>
        /\ _check_if_update_validator_registry(pre) =
               [need_to_update |-> UpdateDue,
                num_shards_in_committees |->
                    IF UpdateDue THEN CommitteeCountOfCall ELSE 0]
        /\ error = "none" =>
               state.current_epoch_start_shard =
                   (pre.current_epoch_start_shard
                        + (IF UpdateDue THEN CommitteeCountOfCall ELSE 0)) % SHARD_COUNT

\* the update was due although the crosslink of a shard outside the current
\* committees was no newer than the registry
C13_Witness ==
    /\ AfterRegistry
    /\ error = "none"
    /\ UpdateDue
    /\ CommitteeCountOfCall > 0
    /\ \E shard \in Shard \ CurrentShards(pre) :
          pre.latest_crosslinks[shard].epoch <= pre.validator_registry_update_epoch

\* the seed of epoch over the ring buffers of pre, under the config of the call
SeedOfCall(epoch) ==
    [hash_eth2 |->
        [randao_mix |->
             pre.latest_randao_mixes[(epoch - inp.MIN_SEED_LOOKAHEAD)
                                         % LATEST_RANDAO_MIXES_LENGTH],
         active_index_root |->
             pre.latest_active_index_roots[epoch % LATEST_ACTIVE_INDEX_ROOTS_LENGTH],
         epoch |-> [little_endian |-> epoch]]]

\* C14: when the update is due, the returned state has current_calculation_epoch
\* = next epoch, current_epoch_start_shard = (old start shard + committee
\* count) mod SHARD_COUNT, and current_epoch_seed = the seed of the new
\* calculation epoch, as generate_seed gives it on the state that carries the
\* advanced calculation epoch and start shard.
C14_DuePath ==
    (AfterRegistry /\ error = "none" /\ UpdateDue) =>
        /\ state.current_calculation_epoch = CurrentEpochOfCall + 1
        /\ state.current_epoch_start_shard =
               (pre.current_epoch_start_shard + CommitteeCountOfCall) % SHARD_COUNT
        /\ state.current_epoch_start_shard \in Shard
        /\ state.current_epoch_seed = SeedOfCall(CurrentEpochOfCall + 1)
        /\ state.current_epoch_seed =
               current_epoch_seed_of(
                   [state EXCEPT !.current_epoch_seed = pre.current_epoch_seed],
                   inp).value

\* a due update that moved the start shard around the end of the shards and
\* replaced the seed of an earlier calculation epoch
C14_Witness ==
    /\ AfterRegistry
    /\ error = "none"
    /\ UpdateDue
    /\ pre.current_epoch_start_shard + CommitteeCountOfCall >= SHARD_COUNT
    /\ state.current_epoch_start_shard # pre.current_epoch_start_shard
    /\ pre.current_epoch_seed # ZERO_HASH32
    /\ state.current_epoch_seed # pre.current_epoch_seed
    /\ pre.current_calculation_epoch < CurrentEpochOfCall


\* epochs since the last registry change, at the call with input pre
GapOfCall == CurrentEpochOfCall - pre.validator_registry_update_epoch

\* the gap is 1, 2, 4, 8, ...
GapIsPowerOfTwo == \E k \in 0 .. GapOfCall : 2 ^ k = GapOfCall

\* C15: when the update is not due, current_calculation_epoch becomes the next
\* epoch and the seed is regenerated exactly when the gap since the last
\* registry change is a power of two (0 is none); otherwise both stay. The
\* start shard stays on this path, and a call takes one path only: the start
\* shard moves by the committee count if and only if the update was due (the
\* committee count of an epoch is no multiple of SHARD_COUNT here).
C15_NotDuePath ==
    (AfterRegistry /\ error = "none") =>
        /\ ~UpdateDue =>
              /\ state.current_epoch_start_shard = pre.current_epoch_start_shard
              /\ GapIsPowerOfTwo =>
                    /\ state.current_calculation_epoch = CurrentEpochOfCall + 1
                    /\ state.current_epoch_seed = SeedOfCall(CurrentEpochOfCall + 1)
              /\ ~GapIsPowerOfTwo =>
                    /\ state.current_calculation_epoch = pre.current_calculation_epoch
                    /\ state.current_epoch_seed = pre.current_epoch_seed
              /\ GapIsPowerOfTwo <=>
                    state.current_calculation_epoch # pre.current_calculation_epoch
        /\ UpdateDue <=>
              state.current_epoch_start_shard =
                  (pre.current_epoch_start_shard + CommitteeCountOfCall) % SHARD_COUNT
        /\ (CommitteeCountOfCall % SHARD_COUNT) # 0

\* a call that was not due and whose gap, a power of two above 2, advanced a
\* calculation epoch the call of the epoch before had left alone
C15_Witness ==
    /\ AfterRegistry
    /\ error = "none"
    /\ ~UpdateDue
    /\ GapOfCall > 2
    /\ GapIsPowerOfTwo
    /\ pre.current_calculation_epoch < CurrentEpochOfCall
    /\ state.current_calculation_epoch = CurrentEpochOfCall + 1
    /\ state.current_epoch_seed # pre.current_epoch_seed


\* C16: on every path of process_validator_registry that returns, the previous
\* calculation epoch, start shard and seed of the returned state are the current
\* ones of the input state, read before a branch advanced them.
C16_Snapshot ==
    (AfterRegistry /\ error = "none") =>
        /\ state.previous_calculation_epoch = pre.current_calculation_epoch
        /\ state.previous_epoch_start_shard = pre.current_epoch_start_shard
        /\ state.previous_epoch_seed = pre.current_epoch_seed

\* a due call that advanced all three current values past their snapshot, the
\* snapshot replacing older previous values
C16_Witness ==
    /\ AfterRegistry
    /\ error = "none"
    /\ UpdateDue
    /\ state.current_calculation_epoch # state.previous_calculation_epoch
    /\ state.current_epoch_start_shard # state.previous_epoch_start_shard
    /\ state.current_epoch_seed # state.previous_epoch_seed
    /\ pre.previous_calculation_epoch # pre.current_calculation_epoch
    /\ pre.previous_epoch_start_shard # pre.current_epoch_start_shard
    /\ pre.previous_epoch_seed # pre.current_epoch_seed

AfterFinalUpdates == last = "process_final_updates"

\* the mix of epoch is outside the window get_randao_mix serves at the call
MixOutsideWindow(epoch) ==
    \/ epoch <= CurrentEpochOfCall - LATEST_RANDAO_MIXES_LENGTH
    \/ epoch > CurrentEpochOfCall

\* the index root of epoch is outside the window get_active_index_root serves
RootOutsideWindow(epoch) ==
    \/ epoch < CurrentEpochOfCall - LATEST_ACTIVE_INDEX_ROOTS_LENGTH
                   + inp.ACTIVATION_EXIT_DELAY + 1
    \/ epoch > CurrentEpochOfCall + inp.ACTIVATION_EXIT_DELAY

\* a lookup of the call with input pre fails: process_validator_registry
\* generates a seed for the next epoch on the due and on the power-of-two path,
\* process_final_updates reads the mix of the current epoch
LookupFails ==
    \/ /\ AfterRegistry
       /\ UpdateDue \/ GapIsPowerOfTwo
       /\ \/ MixOutsideWindow(CurrentEpochOfCall + 1 - inp.MIN_SEED_LOOKAHEAD)
          \/ RootOutsideWindow(CurrentEpochOfCall + 1)
    \/ /\ AfterFinalUpdates
       /\ MixOutsideWindow(CurrentEpochOfCall)

\* what the call with input pre returned
ResultOfCall ==
    IF AfterRegistry THEN process_validator_registry(pre, inp)
    ELSE process_final_updates(pre, inp)

\* C17: atomic abort: a failed ring-buffer lookup inside
\* process_validator_registry or process_final_updates ends the call with an
\* error and without any state; the state the caller holds is the input state,
\* with no snapshot, advanced calculation epoch or start shard, or updated index
\* root in it. A call in which no lookup fails returns a state.
C17_AtomicAbort ==
    (AfterRegistry \/ AfterFinalUpdates) =>
        /\ LookupFails =>
              /\ error = "ValidationError"
              /\ ResultOfCall.raised
              /\ DOMAIN ResultOfCall = {"raised"}
              /\ state = pre
        /\ ~LookupFails =>
              /\ error = "none"
              /\ ~ResultOfCall.raised
              /\ state = ResultOfCall.state

\* the seed lookup failed after the call had advanced the calculation epoch in
\* a copy that differs from the input state
C17_Witness ==
    /\ AfterRegistry
    /\ LookupFails
    /\ GapIsPowerOfTwo
    /\ error = "ValidationError"
    /\ state = pre
    /\ pre.current_calculation_epoch # CurrentEpochOfCall + 1
    /\ state.current_calculation_epoch = pre.current_calculation_epoch


(***************************************************************************)
(* Properties of the final updates                                         *)
(***************************************************************************)
\* C18: process_final_updates stores the mix latest_randao_mixes holds for the
\* current epoch, at index current epoch mod LATEST_RANDAO_MIXES_LENGTH, at
\* index next epoch mod LATEST_SLASHED_EXIT_LENGTH of latest_randao_mixes, and
\* changes no other entry.
C18_RandaoCopy ==
    (AfterFinalUpdates /\ error = "none") =>
        /\ DOMAIN state.latest_randao_mixes = 0 .. (LATEST_RANDAO_MIXES_LENGTH - 1)
        /\ \A i \in 0 .. (LATEST_RANDAO_MIXES_LENGTH - 1) :
              state.latest_randao_mixes[i] =
                  (IF i = (CurrentEpochOfCall + 1) % LATEST_SLASHED_EXIT_LENGTH
                   THEN pre.latest_randao_mixes[
                            CurrentEpochOfCall % LATEST_RANDAO_MIXES_LENGTH]
                   ELSE pre.latest_randao_mixes[i])

\* the two lengths name different slots for the next epoch, and the copy
\* replaced the mix of the slot the slashed-balances length names
C18_Witness ==
    /\ AfterFinalUpdates
    /\ error = "none"
    /\ (CurrentEpochOfCall + 1) % LATEST_SLASHED_EXIT_LENGTH
           # (CurrentEpochOfCall + 1) % LATEST_RANDAO_MIXES_LENGTH
    /\ state.latest_randao_mixes[(CurrentEpochOfCall + 1) % LATEST_SLASHED_EXIT_LENGTH]
           # pre.latest_randao_mixes[(CurrentEpochOfCall + 1) % LATEST_SLASHED_EXIT_LENGTH]
    /\ state.latest_randao_mixes[(CurrentEpochOfCall + 1) % LATEST_RANDAO_MIXES_LENGTH]
           # pre.latest_randao_mixes[CurrentEpochOfCall % LATEST_RANDAO_MIXES_LENGTH]


\* the root of the validators of pre active in epoch, in ascending index order
RootOfActiveSet(epoch) ==
    LET active == {index \in ValidatorIndex :
                       /\ pre.validator_registry[index].activation_epoch <= epoch
                       /\ epoch < pre.validator_registry[index].exit_epoch}
        ordered == SortedIndices(active)
    IN  [hash_eth2 |-> [k \in 1 .. Len(ordered) |-> [big_endian |-> ordered[k]]]]

\* C19: process_final_updates stores the root of the validators active at
\* next epoch + ACTIVATION_EXIT_DELAY at index (next epoch +
\* ACTIVATION_EXIT_DELAY) mod LATEST_ACTIVE_INDEX_ROOTS_LENGTH of
\* latest_active_index_roots and changes no other entry; once state.slot has
\* advanced to the next epoch, get_active_index_root for that epoch +
\* ACTIVATION_EXIT_DELAY is inside the window and returns that root.
C19_ActiveIndexRoot ==
    /\ (AfterFinalUpdates /\ error = "none") =>
          LET target == CurrentEpochOfCall + 1 + inp.ACTIVATION_EXIT_DELAY
          IN  /\ DOMAIN state.latest_active_index_roots =
                     0 .. (LATEST_ACTIVE_INDEX_ROOTS_LENGTH - 1)
              /\ \A i \in 0 .. (LATEST_ACTIVE_INDEX_ROOTS_LENGTH - 1) :
                    state.latest_active_index_roots[i] =
                        (IF i = target % LATEST_ACTIVE_INDEX_ROOTS_LENGTH
                         THEN RootOfActiveSet(target)
                         ELSE pre.latest_active_index_roots[i])
    /\ (last = "advance" /\ error = "none") =>
          LET target == (state.slot \div EPOCH_LENGTH) + inp.ACTIVATION_EXIT_DELAY
              lookup == get_active_index_root(state, target, EPOCH_LENGTH,
                                              inp.ACTIVATION_EXIT_DELAY,
                                              LATEST_ACTIVE_INDEX_ROOTS_LENGTH)
          IN  /\ ~lookup.raised
              /\ lookup.value = RootOfActiveSet(target)

\* the slot has advanced and the lookup returns a root, stored by the final
\* updates of the epoch before, of an active set larger than the one of the
\* new current epoch and different from the root its slot held before
C19_Witness ==
    /\ last = "advance"
    /\ error = "none"
    /\ inp.ACTIVATION_EXIT_DELAY > 0
    /\ LET target == (state.slot \div EPOCH_LENGTH) + inp.ACTIVATION_EXIT_DELAY
       IN  /\ RootOfActiveSet(target) # RootOfActiveSet(state.slot \div EPOCH_LENGTH)
           /\ state.latest_active_index_roots[target % LATEST_ACTIVE_INDEX_ROOTS_LENGTH]
                  = RootOfActiveSet(target)
           /\ state.slot \div EPOCH_LENGTH > GENESIS_EPOCH + 1


\* the slashed balance the genesis state holds for the genesis epoch
GenesisSlashedBalance == (GENESIS_EPOCH % LATEST_SLASHED_EXIT_LENGTH) + 1

\* C20: process_final_updates sets latest_slashed_balances at index next epoch
\* mod LATEST_SLASHED_EXIT_LENGTH to the entry the input state holds at index
\* current epoch mod LATEST_SLASHED_EXIT_LENGTH and changes no other entry; with
\* no other writer, the entry of the current epoch is at every epoch the one
\* carried forward from the genesis epoch.
C20_SlashedCopy ==
    /\ (AfterFinalUpdates /\ error = "none") =>
          /\ DOMAIN state.latest_slashed_balances =
                 0 .. (LATEST_SLASHED_EXIT_LENGTH - 1)
          /\ \A i \in 0 .. (LATEST_SLASHED_EXIT_LENGTH - 1) :
                state.latest_slashed_balances[i] =
                    (IF i = (CurrentEpochOfCall + 1) % LATEST_SLASHED_EXIT_LENGTH
                     THEN pre.latest_slashed_balances[
                              CurrentEpochOfCall % LATEST_SLASHED_EXIT_LENGTH]
                     ELSE pre.latest_slashed_balances[i])
          /\ state.latest_slashed_balances[
                 (CurrentEpochOfCall + 1) % LATEST_SLASHED_EXIT_LENGTH]
                 = GenesisSlashedBalance
    /\ state.latest_slashed_balances[
           (state.slot \div EPOCH_LENGTH) % LATEST_SLASHED_EXIT_LENGTH]
           = GenesisSlashedBalance

\* past the genesis epoch, the slot of the next epoch, which held another
\* balance at genesis, holds the balance carried forward from the genesis epoch
C20_Witness ==
    /\ AfterFinalUpdates
    /\ error = "none"
    /\ CurrentEpochOfCall > GENESIS_EPOCH
    /\ ((CurrentEpochOfCall + 1) % LATEST_SLASHED_EXIT_LENGTH) + 1
           # GenesisSlashedBalance
    /\ state.latest_slashed_balances[
           (CurrentEpochOfCall + 1) % LATEST_SLASHED_EXIT_LENGTH]
           = GenesisSlashedBalance


\* the attestations of a tuple made in the current epoch of the call or later,
\* in the order of the tuple
RECURSIVE KeptAttestations(_)
KeptAttestations(attestations) ==
    IF attestations = <<>> THEN <<>>
    ELSE IF Head(attestations).data.slot \div EPOCH_LENGTH >= CurrentEpochOfCall
        THEN <<Head(attestations)>> \o KeptAttestations(Tail(attestations))
    ELSE KeptAttestations(Tail(attestations))

\* C21: after process_final_updates latest_attestations holds the attestations
\* of the input state whose epoch is the current epoch or later, in their
\* order; the attestations of earlier epochs are dropped and none is added.
C21_PruneAttestations ==
    (AfterFinalUpdates /\ error = "none") =>
        /\ state.latest_attestations = KeptAttestations(pre.latest_attestations)
        /\ \A k \in 1 .. Len(state.latest_attestations) :
              state.latest_attestations[k].data.slot \div EPOCH_LENGTH
                  >= CurrentEpochOfCall
        /\ Len(state.latest_attestations) =
               Cardinality({k \in 1 .. Len(pre.latest_attestations) :
                               pre.latest_attestations[k].data.slot \div EPOCH_LENGTH
                                   >= CurrentEpochOfCall})

\* an attestation of the previous epoch stood between two of the current epoch:
\* it was dropped and the two were kept in their order
C21_Witness ==
    /\ AfterFinalUpdates
    /\ error = "none"
    /\ Len(pre.latest_attestations) = 3
    /\ pre.latest_attestations[2].data.slot \div EPOCH_LENGTH < CurrentEpochOfCall
    /\ state.latest_attestations =
           <<pre.latest_attestations[1], pre.latest_attestations[3]>>
    /\ pre.latest_attestations[1] # pre.latest_attestations[3]


(***************************************************************************)
(* Properties of the ring-buffer lookups                                   *)
(***************************************************************************)
\* the current epoch of the state a lookup was applied to
EpochOfLookup == state.slot \div EPOCH_LENGTH

\* C22: get_randao_mix fails unless current_epoch - LATEST_RANDAO_MIXES_LENGTH
\* < epoch <= current_epoch and otherwise returns the entry epoch mod
\* LATEST_RANDAO_MIXES_LENGTH of latest_randao_mixes; it fails at
\* current_epoch - LATEST_RANDAO_MIXES_LENGTH and at current_epoch + 1 and
\* succeeds at current_epoch - LATEST_RANDAO_MIXES_LENGTH + 1 and at
\* current_epoch.
C22_RandaoMixWindow ==
    last = "get_randao_mix" =>
        /\ returned.raised <=>
               ~(/\ EpochOfLookup - LATEST_RANDAO_MIXES_LENGTH < inp.epoch
                 /\ inp.epoch <= EpochOfLookup)
        /\ ~returned.raised =>
               returned.value =
                   state.latest_randao_mixes[inp.epoch % LATEST_RANDAO_MIXES_LENGTH]
        /\ inp.epoch = EpochOfLookup - LATEST_RANDAO_MIXES_LENGTH => returned.raised
        /\ inp.epoch = EpochOfLookup + 1 => returned.raised
        /\ inp.epoch = EpochOfLookup - LATEST_RANDAO_MIXES_LENGTH + 1 => ~returned.raised
        /\ inp.epoch = EpochOfLookup => ~returned.raised

\* the mix of the epoch just past the window was asked for: the entry it would
\* wrap to holds the mix of the current epoch, and the lookup failed
C22_Witness ==
    /\ last = "get_randao_mix"
    /\ inp.epoch >= 0
    /\ inp.epoch = EpochOfLookup - LATEST_RANDAO_MIXES_LENGTH
    /\ state.latest_randao_mixes[inp.epoch % LATEST_RANDAO_MIXES_LENGTH] # 0
    /\ returned.raised
    /\ error = "ValidationError"

\* the epochs whose active index root a state of the given epoch holds
IndexRootWindow(current_epoch, activation_exit_delay) ==
    (current_epoch - LATEST_ACTIVE_INDEX_ROOTS_LENGTH + activation_exit_delay + 1)
        .. (current_epoch + activation_exit_delay)

\* C23: get_active_index_root fails unless current_epoch -
\* LATEST_ACTIVE_INDEX_ROOTS_LENGTH + ACTIVATION_EXIT_DELAY + 1 <= epoch <=
\* current_epoch + ACTIVATION_EXIT_DELAY and otherwise returns the entry epoch
\* mod LATEST_ACTIVE_INDEX_ROOTS_LENGTH; the window holds exactly
\* LATEST_ACTIVE_INDEX_ROOTS_LENGTH epochs and no two of them share an index.
C23_IndexRootWindow ==
    last = "get_active_index_root" =>
        LET window == IndexRootWindow(EpochOfLookup, inp.activation_exit_delay)
        IN  /\ returned.raised <=> inp.epoch \notin window
            /\ ~returned.raised =>
                   returned.value =
                       state.latest_active_index_roots[
                           inp.epoch % LATEST_ACTIVE_INDEX_ROOTS_LENGTH]
            /\ Cardinality(window) = LATEST_ACTIVE_INDEX_ROOTS_LENGTH
            /\ \A epoch_1 \in window :
               \A epoch_2 \in window :
                    epoch_1 % LATEST_ACTIVE_INDEX_ROOTS_LENGTH =
                        epoch_2 % LATEST_ACTIVE_INDEX_ROOTS_LENGTH
                    => epoch_1 = epoch_2

\* the root of a coming epoch, the last one the delay admits, was returned
C23_Witness ==
    /\ last = "get_active_index_root"
    /\ inp.activation_exit_delay > 0
    /\ inp.epoch = EpochOfLookup + inp.activation_exit_delay
    /\ ~returned.raised
    /\ returned.value = index_root_of(<<inp.epoch % LATEST_ACTIVE_INDEX_ROOTS_LENGTH>>)

\* the slots around the state's whose block root get_block_root returns
AcceptedSlots ==
    { slot \in (state.slot - LATEST_BLOCK_ROOTS_LENGTH - 1) .. (state.slot + 1) :
          ~get_block_root(state, slot, LATEST_BLOCK_ROOTS_LENGTH).raised }

\* C24: get_block_root fails when slot >= state.slot and when state.slot >
\* slot + latest_block_roots_length; for state.slot - latest_block_roots_length
\* <= slot < state.slot it returns the entry slot mod latest_block_roots_length
\* of latest_block_roots; at most latest_block_roots_length slots are accepted
\* and no two of them share an index.
C24_BlockRootWindow ==
    last = "get_block_root" =>
        /\ inp.slot >= state.slot => returned.raised
        /\ state.slot > inp.slot + LATEST_BLOCK_ROOTS_LENGTH => returned.raised
        /\ (state.slot - LATEST_BLOCK_ROOTS_LENGTH <= inp.slot /\ inp.slot < state.slot)
               => /\ ~returned.raised
                  /\ returned.value =
                         state.latest_block_roots[inp.slot % LATEST_BLOCK_ROOTS_LENGTH]
        /\ Cardinality(AcceptedSlots) <= LATEST_BLOCK_ROOTS_LENGTH
        /\ \A slot_1 \in AcceptedSlots :
           \A slot_2 \in AcceptedSlots :
                slot_1 % LATEST_BLOCK_ROOTS_LENGTH = slot_2 % LATEST_BLOCK_ROOTS_LENGTH
                => slot_1 = slot_2

\* the oldest slot of the window was asked for and its root returned
C24_Witness ==
    /\ last = "get_block_root"
    /\ inp.slot >= 0
    /\ inp.slot = state.slot - LATEST_BLOCK_ROOTS_LENGTH
    /\ ~returned.raised
    /\ returned.value = (inp.slot % LATEST_BLOCK_ROOTS_LENGTH) + 1
    /\ Cardinality(AcceptedSlots) = LATEST_BLOCK_ROOTS_LENGTH

\* the entries of the buffers of s that a seed of the call's epoch is made of
MixIndexOfSeed == (inp.epoch - inp.config.MIN_SEED_LOOKAHEAD) % LATEST_RANDAO_MIXES_LENGTH

RootIndexOfSeed == inp.epoch % LATEST_ACTIVE_INDEX_ROOTS_LENGTH

\* the two lookups of the call succeed on s
SeedLookupsSucceed(s) ==
    /\ ~get_randao_mix(s, inp.epoch - inp.config.MIN_SEED_LOOKAHEAD, EPOCH_LENGTH,
                       LATEST_RANDAO_MIXES_LENGTH).raised
    /\ ~get_active_index_root(s, inp.epoch, EPOCH_LENGTH,
                              inp.config.ACTIVATION_EXIT_DELAY,
                              LATEST_ACTIVE_INDEX_ROOTS_LENGTH).raised

\* s and the state of the call agree on the current epoch, the mix and the root
AgreesOnSeedInputs(s) ==
    /\ s.slot \div EPOCH_LENGTH = EpochOfLookup
    /\ s.latest_randao_mixes[MixIndexOfSeed] = state.latest_randao_mixes[MixIndexOfSeed]
    /\ s.latest_active_index_roots[RootIndexOfSeed] =
           state.latest_active_index_roots[RootIndexOfSeed]

SeedOf(s) ==
    generate_seed(s, inp.epoch, EPOCH_LENGTH, inp.config.MIN_SEED_LOOKAHEAD,
                  inp.config.ACTIVATION_EXIT_DELAY, LATEST_ACTIVE_INDEX_ROOTS_LENGTH,
                  LATEST_RANDAO_MIXES_LENGTH)

\* C25: generate_seed is the digest of the mix of epoch - MIN_SEED_LOOKAHEAD,
\* the active index root of epoch and the little-endian epoch; it fails when
\* one of the two lookups fails; a second call returns the same, and so does a
\* call on any state that agrees on the current epoch, that mix and that root.
C25_SeedInputs ==
    last = "generate_seed" =>
        /\ ~SeedLookupsSucceed(state) => returned.raised
        /\ SeedLookupsSucceed(state) =>
               returned =
                   [raised |-> FALSE,
                    value |-> [hash_eth2 |->
                                  [randao_mix |-> state.latest_randao_mixes[MixIndexOfSeed],
                                   active_index_root |->
                                       state.latest_active_index_roots[RootIndexOfSeed],
                                   epoch |-> [little_endian |-> inp.epoch]]]]
        /\ SeedOf(state) = returned
        /\ \A other \in LookupStates :
               AgreesOnSeedInputs(other) => SeedOf(other) = returned

\* a seed was returned, and a state at another slot of the epoch with another
\* mix, another root and another block root elsewhere gives the same seed
C25_Witness ==
    /\ last = "generate_seed"
    /\ ~returned.raised
    /\ inp.config.MIN_SEED_LOOKAHEAD > 0
    /\ \E other \in LookupStates :
           /\ AgreesOnSeedInputs(other)
           /\ other.slot # state.slot
           /\ other.latest_randao_mixes # state.latest_randao_mixes
           /\ other.latest_active_index_roots # state.latest_active_index_roots
           /\ SeedOf(other) = returned


(***************************************************************************)
(* Properties of the pure helpers                                          *)
(***************************************************************************)
\* the slots of an epoch of the chain
SlotsOfEpoch(epoch) == (epoch * EPOCH_LENGTH) .. (((epoch + 1) * EPOCH_LENGTH) - 1)

\* C26: is_double_vote is true exactly when the slots of the two attestation
\* data are of one epoch, and the order of the two does not matter.
C26_DoubleVote ==
    last = "is_double_vote" =>
        /\ returned <=>
               \E epoch \in 0 .. MaxVoteSlot :
                    /\ inp.attestation_data_1.slot \in SlotsOfEpoch(epoch)
                    /\ inp.attestation_data_2.slot \in SlotsOfEpoch(epoch)
        /\ is_double_vote(inp.attestation_data_2, inp.attestation_data_1, EPOCH_LENGTH)
               = returned

\* two votes of different slots of one epoch, with different sources, are a
\* double vote
C26_Witness ==
    /\ last = "is_double_vote"
    /\ inp.attestation_data_1.slot # inp.attestation_data_2.slot
    /\ inp.attestation_data_1.justified_epoch # inp.attestation_data_2.justified_epoch
    /\ returned

\* C27: is_surround_vote is true exactly when the first source is strictly
\* before the second source and the second target strictly before the first
\* target; the order matters: a pair is not surrounded both ways.
C27_SurroundVote ==
    last = "is_surround_vote" =>
        /\ returned <=>
               /\ inp.attestation_data_1.justified_epoch
                      < inp.attestation_data_2.justified_epoch
               /\ inp.attestation_data_2.slot \div EPOCH_LENGTH
                      < inp.attestation_data_1.slot \div EPOCH_LENGTH
        /\ inp.attestation_data_1.justified_epoch = inp.attestation_data_2.justified_epoch
               => ~returned
        /\ inp.attestation_data_1.slot \div EPOCH_LENGTH
               = inp.attestation_data_2.slot \div EPOCH_LENGTH
               => ~returned
        /\ returned =>
               ~is_surround_vote(inp.attestation_data_2, inp.attestation_data_1,
                                 EPOCH_LENGTH)

\* the first vote surrounds the second, and asked the other way round the
\* answer differs
C27_Witness ==
    /\ last = "is_surround_vote"
    /\ returned
    /\ is_surround_vote(inp.attestation_data_2, inp.attestation_data_1, EPOCH_LENGTH)
           # returned

\* the sum of the first n entries of a tuple
RECURSIVE SumUpTo(_, _)
SumUpTo(tuple, n) == IF n = 0 THEN 0 ELSE tuple[n] + SumUpTo(tuple, n - 1)

\* the balances of the indices of the call, as they are
RawBalances ==
    [k \in 1 .. Len(inp.validator_indices) |->
        inp.validator_balances[inp.validator_indices[k]]]

\* C28: get_total_balance is the sum over the indices of the smaller of the
\* balance and max_deposit_amount; a validator counts max_deposit_amount at
\* most, so the total is at most len(indices) * max_deposit_amount and at most
\* the sum of the balances.
C28_TotalBalance ==
    last = "get_total_balance" =>
        /\ returned =
               SumUpTo([k \in 1 .. Len(inp.validator_indices) |->
                           IF RawBalances[k] > MAX_DEPOSIT_AMOUNT
                               THEN MAX_DEPOSIT_AMOUNT
                           ELSE RawBalances[k]],
                       Len(inp.validator_indices))
        /\ \A k \in 1 .. Len(inp.validator_indices) :
               LET effective_balance ==
                       get_effective_balance(inp.validator_balances,
                                             inp.validator_indices[k],
                                             MAX_DEPOSIT_AMOUNT)
               IN  /\ effective_balance <= MAX_DEPOSIT_AMOUNT
                   /\ RawBalances[k] > MAX_DEPOSIT_AMOUNT
                          => effective_balance = MAX_DEPOSIT_AMOUNT
        /\ returned <= Len(inp.validator_indices) * MAX_DEPOSIT_AMOUNT
        /\ returned <= SumUpTo(RawBalances, Len(inp.validator_indices))
        /\ get_effective_balance([index \in {0} |-> 40], 0, 32) = 32

\* a validator above the cap and one below it were summed: the total is below
\* both bounds
C28_Witness ==
    /\ last = "get_total_balance"
    /\ Len(inp.validator_indices) = MaxIndices
    /\ \E k \in 1 .. Len(inp.validator_indices) : RawBalances[k] > MAX_DEPOSIT_AMOUNT
    /\ \E k \in 1 .. Len(inp.validator_indices) :
           RawBalances[k] > 0 /\ RawBalances[k] < MAX_DEPOSIT_AMOUNT
    /\ returned < Len(inp.validator_indices) * MAX_DEPOSIT_AMOUNT
    /\ returned < SumUpTo(RawBalances, Len(inp.validator_indices))

\* a mod 2^32 as two digits, and a div 2^32
LowDigits(a) == [k \in 1 .. 2 |-> IF k <= Len(a) THEN a[k] ELSE 0]

HighDigits(a) == IF Len(a) <= 2 THEN <<>> ELSE SubSeq(a, 3, Len(a))

\* the version of the fork of the call that is in force at the epoch of the call
VersionOfCall ==
    IF inp.epoch < inp.fork.epoch THEN inp.fork.previous_version
    ELSE inp.fork.current_version

\* C29: get_domain is fork_version * 2^32 + domain_type, with the previous
\* version before fork.epoch and the current version from fork.epoch on; for
\* domain types below 2^32 two calls return the same domain only if their fork
\* version and their domain type are the same.
C29_Domain ==
    last = "get_domain" =>
        /\ LowDigits(returned) = LowDigits(inp.domain_type)
        /\ HighDigits(returned) = int_add(VersionOfCall, HighDigits(inp.domain_type), 0)
        /\ inp.epoch = inp.fork.epoch =>
               HighDigits(returned) =
                   int_add(inp.fork.current_version, HighDigits(inp.domain_type), 0)
        /\ Len(inp.domain_type) <= 2 =>
               \A fork \in Forks :
               \A epoch \in 0 .. (MaxForkEpoch + 1) :
               \A domain_type \in DomainTypes :
                    (Len(domain_type) <= 2
                         /\ get_domain(fork, epoch, domain_type) = returned)
                    => /\ get_fork_version(fork, epoch) = VersionOfCall
                       /\ domain_type = inp.domain_type

\* at the epoch of a fork that changes the version, the largest domain type
\* below 2^32 stands under the current version
C29_Witness ==
    /\ last = "get_domain"
    /\ inp.epoch = inp.fork.epoch
    /\ inp.fork.current_version # <<>>
    /\ inp.fork.previous_version # inp.fork.current_version
    /\ inp.domain_type = <<DigitBase - 1, DigitBase - 1>>
    /\ returned = inp.domain_type \o inp.fork.current_version

\* C30: for a slot s >= 0, an epoch e >= 0 and a positive epoch_length,
\* slot_to_epoch(s) is the floor of s / epoch_length, get_epoch_start_slot(e) is
\* e * epoch_length, slot_to_epoch(get_epoch_start_slot(e)) = e and
\* get_epoch_start_slot(slot_to_epoch(s)) <= s <
\* get_epoch_start_slot(slot_to_epoch(s) + 1).
C30_TimeUnits ==
    /\ last = "slot_to_epoch" =>
           /\ returned * inp.epoch_length <= inp.slot
           /\ inp.slot < (returned + 1) * inp.epoch_length
           /\ get_epoch_start_slot(returned, inp.epoch_length) <= inp.slot
           /\ inp.slot < get_epoch_start_slot(returned + 1, inp.epoch_length)
    /\ last = "get_epoch_start_slot" =>
           /\ returned = SumUpTo([k \in 1 .. inp.epoch |-> inp.epoch_length], inp.epoch)
           /\ slot_to_epoch(returned, inp.epoch_length) = inp.epoch

\* a slot in the middle of an epoch after the first was converted
C30_Witness ==
    /\ last = "slot_to_epoch"
    /\ inp.epoch_length > 1
    /\ returned > 0
    /\ get_epoch_start_slot(returned, inp.epoch_length) < inp.slot
    /\ inp.slot + 1 < get_epoch_start_slot(returned + 1, inp.epoch_length)


(***************************************************************************)
(* Properties of whole chains of epoch transitions                         *)
(***************************************************************************)
\* C31: in every state reached from genesis by one process_justification per
\* epoch, previous_justified_epoch <= justified_epoch <= current epoch and
\* finalized_epoch <= justified_epoch, and no transition lowers
\* justified_epoch.
C31_EpochMarkerOrder ==
    /\ state.previous_justified_epoch <= state.justified_epoch
    /\ state.justified_epoch <= state.slot \div EPOCH_LENGTH
    /\ state.finalized_epoch <= state.justified_epoch
    /\ pre.justified_epoch <= state.justified_epoch

\* a transition past the first epochs moved justified_epoch forward, to an
\* epoch before the current one, with the two other markers strictly behind
C31_Witness ==
    /\ AfterJustification
    /\ pre.justified_epoch > GENESIS_EPOCH
    /\ pre.justified_epoch < state.justified_epoch
    /\ state.previous_justified_epoch < state.justified_epoch
    /\ state.finalized_epoch < state.justified_epoch
    /\ state.finalized_epoch > GENESIS_EPOCH
    /\ state.justified_epoch < state.slot \div EPOCH_LENGTH


\* the call with input pre took a path that regenerates the seed
SeedPathTaken == UpdateDue \/ GapIsPowerOfTwo

\* C32: on the two seed-regenerating paths of process_validator_registry the
\* seed is asked for the next epoch on a state of unchanged slot: the call
\* returns only if next_epoch - MIN_SEED_LOOKAHEAD <= current_epoch and
\* next_epoch <= current_epoch + ACTIVATION_EXIT_DELAY; it returns whenever
\* MIN_SEED_LOOKAHEAD >= 1 and ACTIVATION_EXIT_DELAY >= 1 and neither is longer
\* than the buffer it is used with, and it fails whenever MIN_SEED_LOOKAHEAD = 0
\* or ACTIVATION_EXIT_DELAY = 0.
C32_SeedForNextEpoch ==
    (AfterRegistry /\ SeedPathTaken) =>
        /\ error = "none" =>
              /\ state.slot = pre.slot
              /\ state.current_calculation_epoch = CurrentEpochOfCall + 1
              /\ (CurrentEpochOfCall + 1) - inp.MIN_SEED_LOOKAHEAD <= CurrentEpochOfCall
              /\ CurrentEpochOfCall + 1 <= CurrentEpochOfCall + inp.ACTIVATION_EXIT_DELAY
        /\ (/\ inp.MIN_SEED_LOOKAHEAD >= 1
            /\ inp.ACTIVATION_EXIT_DELAY >= 1
            /\ inp.MIN_SEED_LOOKAHEAD <= LATEST_RANDAO_MIXES_LENGTH
            /\ inp.ACTIVATION_EXIT_DELAY <= LATEST_ACTIVE_INDEX_ROOTS_LENGTH)
               => error = "none"
        /\ (inp.MIN_SEED_LOOKAHEAD = 0 \/ inp.ACTIVATION_EXIT_DELAY = 0)
               => error = "ValidationError"
        /\ (\/ inp.MIN_SEED_LOOKAHEAD > LATEST_RANDAO_MIXES_LENGTH
            \/ inp.ACTIVATION_EXIT_DELAY > LATEST_ACTIVE_INDEX_ROOTS_LENGTH)
               => error = "ValidationError"

\* with a lookahead of an epoch and no activation exit delay the mix is
\* retained, the root of the next epoch is not, and the call failed
C32_Witness ==
    /\ AfterRegistry
    /\ SeedPathTaken
    /\ inp.MIN_SEED_LOOKAHEAD = 1
    /\ inp.ACTIVATION_EXIT_DELAY = 0
    /\ ~MixOutsideWindow(CurrentEpochOfCall + 1 - inp.MIN_SEED_LOOKAHEAD)
    /\ RootOutsideWindow(CurrentEpochOfCall + 1)
    /\ error = "ValidationError"


\* the state the slot processing of the next epoch starts from
AfterSlotAdvance == [state EXCEPT !.slot = state.slot + EPOCH_LENGTH]

\* C33: process_final_updates alters no RANDAO mix that is still retained once
\* the epoch has advanced: for every epoch e with current_epoch -
\* LATEST_RANDAO_MIXES_LENGTH + 1 < e <= current_epoch get_randao_mix(e) is the
\* same on the returned state as on the input state, and after the slot has
\* advanced get_randao_mix(next_epoch) is the input state's
\* get_randao_mix(current_epoch), whether LATEST_RANDAO_MIXES_LENGTH and
\* LATEST_SLASHED_EXIT_LENGTH are equal or not.
C33_RetainedMixes ==
    (AfterFinalUpdates /\ error = "none") =>
        /\ \A epoch \in 0 .. CurrentEpochOfCall :
               CurrentEpochOfCall - LATEST_RANDAO_MIXES_LENGTH + 1 < epoch =>
                   get_randao_mix(state, epoch, EPOCH_LENGTH, LATEST_RANDAO_MIXES_LENGTH)
                       = get_randao_mix(pre, epoch, EPOCH_LENGTH,
                                        LATEST_RANDAO_MIXES_LENGTH)
        /\ get_randao_mix(AfterSlotAdvance, CurrentEpochOfCall + 1, EPOCH_LENGTH,
                          LATEST_RANDAO_MIXES_LENGTH)
               = get_randao_mix(pre, CurrentEpochOfCall, EPOCH_LENGTH,
                                LATEST_RANDAO_MIXES_LENGTH)



\* the registry update is due in s
DueIn(s) == _check_if_update_validator_registry(s).need_to_update

\* from s to t finalized_epoch and the crosslink epochs of the current
\* committees' shards do not decrease, and the committee shards are the same
TriggerInputsKept(s, t) ==
    /\ t.finalized_epoch >= s.finalized_epoch
    /\ CurrentShards(t) = CurrentShards(s)
    /\ \A shard \in CurrentShards(s) :
           t.latest_crosslinks[shard].epoch >= s.latest_crosslinks[shard].epoch

\* process_validator_registry leaves the registry, the balances and the epoch
\* of the last registry update as they were, whether it returned or raised
RegistryKept ==
    AfterRegistry =>
        /\ state.validator_registry_update_epoch = pre.validator_registry_update_epoch
        /\ state.validator_registry = pre.validator_registry
        /\ state.validator_balances = pre.validator_balances

SurroundsInTurn(a, b, epoch_length) ==
    /\ is_surround_vote(a, b, epoch_length)
    /\ \E c \in AttestationDatas : is_surround_vote(b, c, epoch_length)

\* C35: the two slashing predicates are mutually exclusive and the surround
\* relation is a strict order: for the votes a and b of a call, every third vote
\* c and every positive epoch length, a surrounding b is no double vote, a does
\* not surround itself, a and b do not surround each other, and a surrounding b
\* surrounding c surrounds c.
C35_SlashingPredicates ==
    last = "is_surround_vote" =>
        LET a == inp.attestation_data_1
            b == inp.attestation_data_2
        IN  /\ returned => ~is_double_vote(a, b, EPOCH_LENGTH)
            /\ \A epoch_length \in 1 .. MaxEpochLength :
                /\ is_surround_vote(a, b, epoch_length)
                       => ~is_double_vote(a, b, epoch_length)
                /\ ~is_surround_vote(a, a, epoch_length)
                /\ ~(is_surround_vote(a, b, epoch_length)
                       /\ is_surround_vote(b, a, epoch_length))
                /\ \A c \in AttestationDatas :
                       (is_surround_vote(a, b, epoch_length)
                            /\ is_surround_vote(b, c, epoch_length))
                           => is_surround_vote(a, c, epoch_length)

\* a call that returned true for a surrounding b, where b surrounds a third
\* vote in turn
C35_Witness ==
    /\ last = "is_surround_vote"
    /\ returned
    /\ SurroundsInTurn(inp.attestation_data_1, inp.attestation_data_2, EPOCH_LENGTH)
    /\ ~is_double_vote(inp.attestation_data_1, inp.attestation_data_2, EPOCH_LENGTH)

====
